---- MODULE Spec2Model ----
(***************************************************************************)
(* TransLens browser extension: configuration storage and merge, page      *)
(* scanner, sampler, translation pass, annotator and tooltip, modelled     *)
(* from src/chrome_ext/{config,background,popup,content}.js and            *)
(* src/translate/content.js.                                               *)
(*                                                                         *)
(* Strings are sequences of tokens (a token is one character or one        *)
(* indivisible piece of text), so that trim(), includes(), replace() and   *)
(* the URL and HTML parsers are computed on them.  Time is counted in      *)
(* ticks of 100 ms, the greatest common divisor of the timers of the       *)
(* content script.                                                         *)
(***************************************************************************)
EXTENDS Integers, Sequences, FiniteSets, TLC

\* ------------------------------------------------------------------ bounds
\* Largest candidate list handed to the sampler in SamplerSpec.
MaxTexts == 7
\* Number of edits of settings-form fields in one run of ConfigSpec.
MaxEdits == 1
\* Number of 'configUpdated' messages in flight to the tab at one time.
MaxMessages == 2
\* The clicks on the tooltip's button in one behaviour.
MaxMarks == 2
MaxFlights == 4

VARIABLES
    \* --- sampler (SamplerSpec)
    texts,            \* argument of randomSelectTexts: the candidate list
    percentage,       \* selectionPercentage, in percent (the code divides by 100)
    sampled,          \* result of randomSelectTexts
    samplerPc,        \* "input" | "done"
    \* --- configuration (ConfigSpec)
    installed,        \* the onInstalled listener has run
    storage,          \* chrome.storage.sync: [present, cfg] of key translatorConfig
    form,             \* the settings page's input fields
    popupOpen,        \* the settings page is loaded
    edits,            \* input events so far
    status,           \* statusDiv's class: "none" | "error" | "success" | "testing"
    pendingWrites,    \* chrome.storage.sync.set calls not yet settled
    tabMessages,      \* runtime messages in flight to the tab's content script
    settingsOpened,   \* the last onInstalled run opened settings.html
    translatorConfig, \* content script: let translatorConfig (Null before a load)
    lastReads,        \* the configs merged in the last step: {[reader, stored, merged]}
    \* --- content script on one page (PageSpec)
    doc,              \* the document: the body element and what is under it
    detached,         \* subtrees removed from the document that a candidate refers to
    nextUid,          \* the next node object
    nextWordId,       \* the number of the next hoverable-word id
    setterThrows,     \* the page makes the assignment to innerHTML throw
    storageGetOk,     \* chrome.storage.sync.get resolves on this page
    hasExecuted,      \* content.js: let hasExecuted
    mainPc,           \* executeMain: "idle" | "loading" | "waiting"
    timers,           \* pending setTimeout calls: {[kind, left, id]}
    chineseTexts,     \* extractAndTranslateChinese: const chineseTexts
    selectedTexts,    \* translateSelectedTexts: its argument
    loopI,            \* translateSelectedTexts: let i, counted from 1
    passPc,           \* "idle" | "empty" | "fetching" | "delaying" | "done" | "crashed"
    inFlight,         \* the /translate requests not yet settled (indices of requests)
    requests,         \* every /translate request issued so far, in order
    sinceSettle,      \* ticks since the last request settled, up to TranslateDelay
    scans,            \* runs of extractAndTranslateChinese so far
    lastCall,         \* the loop body just run: its candidate, response and the DOM before
    \* --- tooltip (HoverSpec)
    pointer,          \* where the pointer is: "away" | a word | "tooltip"
    tooltips,         \* the words of the #translens-word-tooltip elements in the body
    hoverTimers,      \* pending tooltip timers: {[kind, handle, left, word]}
    timeouts,         \* content.js: let currentTooltipTimeouts (0 for null)
    wordListeners,    \* which word's element has the hover listeners
    hoverTicks,       \* ticks the pointer has been on the word it is on, up to ShowDelay
    lastShow,         \* the tooltip just created: its word, the pointer and hoverTicks then
    \* --- mark as familiar (FamiliarSpec)
    marks,            \* the /familiar-words requests so far: [word, elementId, url, outcome]
    notifications,    \* the notifications shown so far: "success" | "error"
    \* --- connection test of the settings page (PopupSpec)
    testBtnDisabled,  \* testBtn.disabled
    testFlights,      \* the test requests in flight: <<[block, url, age]>>
    \* --- page-load triggers (LoadSpec)
    readyState,       \* document.readyState: "loading" | "interactive" | "complete"
    listening         \* the events waitForPageLoad listens to

samplerVars == <<texts, percentage, sampled, samplerPc>>
configVars == <<installed, storage, form, popupOpen, edits, status, pendingWrites,
                tabMessages, settingsOpened, translatorConfig, lastReads>>
pageVars == <<doc, detached, nextUid, nextWordId, setterThrows, storageGetOk,
              hasExecuted, mainPc, timers, chineseTexts, selectedTexts, loopI, passPc,
              inFlight, requests, sinceSettle, scans, lastCall>>
hoverVars == <<pointer, tooltips, hoverTimers, timeouts, wordListeners, hoverTicks,
               lastShow>>
familiarVars == <<marks, notifications>>
testVars == <<testBtnDisabled, testFlights>>
loadVars == <<readyState, listening>>
vars == <<samplerVars, configVars, pageVars, hoverVars, familiarVars, testVars,
          loadVars>>

\* ----------------------------------------------------------------- helpers
Max(a, b) == IF a >= b THEN a ELSE b
Min(a, b) == IF a <= b THEN a ELSE b
Range(s) == {s[i] : i \in DOMAIN s}
Null == [null |-> TRUE]
EmptyObject == [f \in {} |-> 0]

\* String.prototype.trim on a token string: leading and trailing blanks go.
RECURSIVE TrimLeft(_)
TrimLeft(s) == IF s # <<>> /\ Head(s) = " " THEN TrimLeft(Tail(s)) ELSE s
RECURSIVE TrimRight(_)
TrimRight(s) ==
    IF s # <<>> /\ s[Len(s)] = " " THEN TrimRight(SubSeq(s, 1, Len(s) - 1)) ELSE s
trim(s) == TrimRight(TrimLeft(s))

\* Object spread {...a, ...b}: b's fields win.
SpreadFirst(a, b) == a

Spread(a, b) ==
    [f \in DOMAIN a \cup DOMAIN b |-> IF f \in DOMAIN b THEN b[f] ELSE a[f]]

\* Date.now(): a positive number.
DateNow == 1

\* --------------------------------------------------- configuration: values
SERVER_DEFAULT == <<"http:", "//127.0.0.1:5000">>
API_DEFAULT == <<"http:", "//localhost:8080/v1/chat/completions">>
SYS_SHORT == <<"expert">>
SYS_LONG == <<"expert", "only-the-meaning">>
TEMPLATE_DEFAULT == <<"translate", "{target_word}", ":", "{context_sentence}">>

\* config.js: the shared defaults, used by background.js (importScripts).
DEFAULT_CONFIG ==
    [serverUrl |-> SERVER_DEFAULT, apiUrl |-> API_DEFAULT, apiKey |-> <<>>,
     modelName |-> <<>>, systemPrompt |-> SYS_LONG,
     userPromptTemplate |-> TEMPLATE_DEFAULT, selectionPercentage |-> 10]

\* content.js: the content script's own defaults.
ContentDEFAULT_CONFIG ==
    [serverUrl |-> SERVER_DEFAULT, apiUrl |-> <<>>, apiKey |-> <<>>,
     modelName |-> <<>>, systemPrompt |-> SYS_SHORT,
     userPromptTemplate |-> TEMPLATE_DEFAULT, selectionPercentage |-> 40]

\* popup.js, first script block.
Popup1DEFAULT_CONFIG ==
    [serverUrl |-> SERVER_DEFAULT, apiUrl |-> <<>>, apiKey |-> <<>>,
     modelName |-> <<>>, systemPrompt |-> SYS_SHORT,
     userPromptTemplate |-> TEMPLATE_DEFAULT]

\* popup.js, second script block.
Popup2DEFAULT_CONFIG ==
    [serverUrl |-> SERVER_DEFAULT, apiUrl |-> API_DEFAULT, apiKey |-> <<>>,
     modelName |-> <<>>, systemPrompt |-> SYS_SHORT,
     userPromptTemplate |-> TEMPLATE_DEFAULT]

\* The fields that have a default somewhere in the extension.
DefaultableFields ==
    {"serverUrl", "apiUrl", "apiKey", "modelName", "systemPrompt",
     "userPromptTemplate", "selectionPercentage"}
FormFields ==
    {"serverUrl", "apiUrl", "apiKey", "modelName", "systemPrompt",
     "userPromptTemplate"}

Readers == {"content", "popup1", "popup2", "background"}
DefaultsOf(reader) ==
    CASE reader = "content" -> ContentDEFAULT_CONFIG
      [] reader = "popup1" -> Popup1DEFAULT_CONFIG
      [] reader = "popup2" -> Popup2DEFAULT_CONFIG
      [] reader = "background" -> DEFAULT_CONFIG

\* What the user can type into each field of the settings form.
InputValues(field) ==
    CASE field = "serverUrl" ->
           {<<>>, <<"ftp:", "//example.org">>, <<" ", "https:", "//example.org", " ">>}
      [] field = "apiUrl" -> {<<>>, <<"localhost:", "8080">>}
      [] field = "apiKey" -> {<<"sk-key">>}
      [] field = "modelName" -> {<<"model">>}
      [] field = "systemPrompt" -> {<<>>}
      [] field = "userPromptTemplate" ->
           {<<>>, <<"translate", "{target_word}">>,
            <<"translate", "{context_sentence}">>}

\* ------------------------------------------------ configuration: functions
\* new URL(string): the schemes of the strings of the model; a special scheme
\* needs a host, any other scheme parses with whatever follows it.
SpecialSchemes == {"http:", "https:", "ftp:"}
OtherSchemes == {"localhost:", "mailto:"}
URLParses(s) ==
    /\ s # <<>>
    /\ \/ s[1] \in SpecialSchemes /\ Len(s) >= 2
       \/ s[1] \in OtherSchemes

\* A validator that accepts every string.
isValidUrlAny(s) == TRUE

isValidUrl(s) ==
    IF URLParses(trim(s)) THEN trim(s)[1] \in {"http:", "https:"} ELSE FALSE

\* {...DEFAULT_CONFIG, ...config, lastUpdated: config.lastUpdated || Date.now()}
MergeConfig(defaults, config) ==
    Spread(Spread(defaults, config),
           [lastUpdated |->
               IF "lastUpdated" \in DOMAIN config /\ config.lastUpdated # 0
               THEN config.lastUpdated ELSE DateNow])

\* result.translatorConfig || {}
StoredOrEmpty(st) == IF st.present THEN st.cfg ELSE EmptyObject

\* The three merging readers; getOk is whether chrome.storage.sync.get resolved.
\* loadTranslatorConfig (content.js) and getStoredConfig (popup.js) fall back to
\* their defaults when it rejects.
ReadConfig(reader, st, getOk) ==
    IF getOk THEN MergeConfig(DefaultsOf(reader), StoredOrEmpty(st))
    ELSE Spread(DefaultsOf(reader), [lastUpdated |-> DateNow])

ReadRecord(reader, st, getOk) ==
    [reader |-> reader, getOk |-> getOk, stored |-> StoredOrEmpty(st),
     merged |-> ReadConfig(reader, st, getOk)]

\* loadCurrentSettings: input.value = config.<field> || ''
FormOf(config) ==
    [f \in FormFields |-> IF f \in DOMAIN config THEN config[f] ELSE <<>>]

\* A validation that lets every form pass.
SaveValidAlways(f) == TRUE

\* saveSettings' validation, in the order of its early returns.
SaveValid(f) ==
    LET serverUrl == trim(f.serverUrl)
        apiUrl == trim(f.apiUrl)
        template == trim(f.userPromptTemplate)
    IN  /\ serverUrl # <<>>
        /\ isValidUrl(serverUrl)
        /\ (apiUrl # <<>> => isValidUrl(apiUrl))
        /\ (template # <<>> => "{target_word}" \in Range(template))
        /\ (template # <<>> => "{context_sentence}" \in Range(template))

\* saveSettings' config object: the six trimmed fields and lastUpdated.
SavedConfig(f) ==
    [serverUrl |-> trim(f.serverUrl), apiUrl |-> trim(f.apiUrl),
     apiKey |-> trim(f.apiKey), modelName |-> trim(f.modelName),
     systemPrompt |-> trim(f.systemPrompt),
     userPromptTemplate |-> trim(f.userPromptTemplate), lastUpdated |-> DateNow]

\* resetSettings' config object of one script block.
ResetConfig(defaults) == Spread(defaults, [lastUpdated |-> DateNow])

\* -------------------------------------------------- configuration: actions
ConfigInit ==
    /\ installed = FALSE
    /\ storage = [present |-> FALSE, cfg |-> EmptyObject]
    /\ form = FormOf(EmptyObject)
    /\ popupOpen = FALSE
    /\ edits = 0
    /\ status = "none"
    /\ pendingWrites = <<>>
    /\ tabMessages = <<>>
    /\ settingsOpened = FALSE
    /\ translatorConfig = Null
    /\ lastReads = {}

\* background.js: chrome.runtime.onInstalled listener.
OnInstalled ==
    \E reason \in {"install", "update", "chrome_update"}, getOk \in BOOLEAN,
       setOk \in BOOLEAN :
        /\ pendingWrites = <<>>
        /\ installed' = TRUE
        /\ IF getOk /\ ~storage.present
           THEN /\ storage' = IF setOk
                              THEN [present |-> TRUE,
                                    cfg |-> Spread(DEFAULT_CONFIG,
                                                   [lastUpdated |-> DateNow,
                                                    firstInstall |-> TRUE])]
                              ELSE storage
                /\ settingsOpened' = (setOk /\ reason = "install")
           ELSE /\ storage' = storage
                /\ settingsOpened' = FALSE
        /\ lastReads' = {}
        /\ UNCHANGED <<form, popupOpen, edits, status, pendingWrites, tabMessages,
                       translatorConfig>>
        /\ UNCHANGED <<loadVars, testVars, samplerVars, pageVars, hoverVars, familiarVars>>

\* popup.js: DOMContentLoaded of the settings page; both script blocks run
\* initializeElements, loadCurrentSettings and bindEvents, the second block's
\* continuation last, and the second block goes on to loadCacheStatus.
PopupOpen ==
    \E getOk \in BOOLEAN :
        /\ installed
        /\ pendingWrites = <<>>
        /\ popupOpen' = TRUE
        /\ form' = FormOf(ReadConfig("popup2", storage, getOk))
        /\ status' = "none"
        /\ lastReads' = {ReadRecord("popup1", storage, getOk),
                         ReadRecord("popup2", storage, getOk)}
        /\ UNCHANGED <<installed, storage, edits, pendingWrites, tabMessages,
                       settingsOpened, translatorConfig>>
        /\ UNCHANGED <<loadVars, testVars, samplerVars, pageVars, hoverVars, familiarVars>>

\* The user types into one field of the form.
UserInput ==
    \E field \in FormFields :
        \E value \in InputValues(field) :
            /\ popupOpen
            /\ edits < MaxEdits
            /\ form[field] # value
            /\ form' = [form EXCEPT ![field] = value]
            /\ edits' = edits + 1
            /\ lastReads' = {}
            /\ UNCHANGED <<installed, storage, popupOpen, status, pendingWrites,
                           tabMessages, settingsOpened, translatorConfig>>
            /\ UNCHANGED <<loadVars, testVars, samplerVars, pageVars, hoverVars, familiarVars>>

\* popup.js saveSettings, up to its await: both script blocks listen to the
\* click, validate the same fields and each calls chrome.storage.sync.set.
SaveClick ==
    /\ popupOpen
    /\ pendingWrites = <<>>
    /\ IF SaveValid(form)
       THEN /\ pendingWrites' = <<[kind |-> "save", block |-> 1, cfg |-> SavedConfig(form)],
                                  [kind |-> "save", block |-> 2, cfg |-> SavedConfig(form)]>>
            /\ status' = status
       ELSE /\ pendingWrites' = pendingWrites
            /\ status' = "error"
    /\ lastReads' = {}
    /\ UNCHANGED <<installed, storage, form, popupOpen, edits, tabMessages,
                   settingsOpened, translatorConfig>>
    /\ UNCHANGED <<loadVars, testVars, samplerVars, pageVars, hoverVars, familiarVars>>

\* popup.js resetSettings, up to its await: each script block fills the form
\* with its own defaults and writes them; the second block's values stay.
ResetClick ==
    /\ popupOpen
    /\ pendingWrites = <<>>
    /\ form' = FormOf(Popup2DEFAULT_CONFIG)
    /\ pendingWrites' = <<[kind |-> "reset", block |-> 1,
                           cfg |-> ResetConfig(Popup1DEFAULT_CONFIG)],
                          [kind |-> "reset", block |-> 2,
                           cfg |-> ResetConfig(Popup2DEFAULT_CONFIG)]>>
    /\ lastReads' = {}
    /\ UNCHANGED <<installed, storage, popupOpen, edits, status, tabMessages,
                   settingsOpened, translatorConfig>>
    /\ UNCHANGED <<loadVars, testVars, samplerVars, pageVars, hoverVars, familiarVars>>

\* The tabs chrome.tabs.query({}) returns: a web page with the content script
\* and the settings page itself.
OpenTabs ==
    <<[id |-> 1, url |-> <<"https:", "//example.org">>],
      [id |-> 2, url |-> <<"chrome-extension:", "//translens/settings.html">>]>>

\* tab.url && (tab.url.startsWith('http') || tab.url.startsWith('https'))
startsWithHttp(tab) == tab.url # <<>> /\ Head(tab.url) \in {"http:", "https:"}

\* A notifyConfigUpdate that sends nothing.
notifyConfigUpdateNever(tabs) == <<>>

\* notifyConfigUpdate: the messages chrome.tabs.sendMessage sends, in the
\* order of the tabs.
notifyConfigUpdate(tabs) ==
    LET to == SelectSeq(tabs, startsWithHttp)
    IN  [k \in DOMAIN to |-> [action |-> "configUpdated", tab |-> to[k].id]]

\* The oldest chrome.storage.sync.set settles and saveSettings / resetSettings
\* continues: status, notifyConfigUpdate and, in the second block,
\* loadCacheStatus (which reads the config again); the catch block on a failure.
StorageWriteDone ==
    \E setOk \in BOOLEAN, getOk \in BOOLEAN :
        /\ pendingWrites # <<>>
        /\ Len(tabMessages) < MaxMessages
        /\ LET w == Head(pendingWrites)
               st == IF setOk THEN [present |-> TRUE, cfg |-> w.cfg] ELSE storage
           IN  /\ storage' = st
               /\ pendingWrites' = Tail(pendingWrites)
               /\ status' = IF setOk THEN "success" ELSE "error"
               /\ tabMessages' = IF setOk
                                 THEN tabMessages \o notifyConfigUpdate(OpenTabs)
                                 ELSE tabMessages
               /\ lastReads' = IF setOk /\ w.block = 2
                               THEN {ReadRecord("popup2", st, getOk)}
                               ELSE {}
        /\ UNCHANGED <<installed, form, popupOpen, edits, settingsOpened,
                       translatorConfig>>
        /\ UNCHANGED <<loadVars, testVars, samplerVars, pageVars, hoverVars, familiarVars>>

\* content.js loadTranslatorConfig: the content script's cached config.
loadTranslatorConfig(st, getOk) == ReadConfig("content", st, getOk)

\* content.js: chrome.runtime.onMessage listener; only 'configUpdated' reloads.
ContentOnMessage ==
    \E getOk \in BOOLEAN :
        /\ tabMessages # <<>>
        /\ tabMessages' = Tail(tabMessages)
        /\ IF Head(tabMessages).action = "configUpdated"
           THEN /\ translatorConfig' = loadTranslatorConfig(storage, getOk)
                /\ lastReads' = {ReadRecord("content", storage, getOk)}
           ELSE /\ translatorConfig' = translatorConfig
                /\ lastReads' = {}
        /\ UNCHANGED <<installed, storage, form, popupOpen, edits, status,
                       pendingWrites, settingsOpened>>
        /\ UNCHANGED <<loadVars, testVars, samplerVars, pageVars, hoverVars, familiarVars>>

\* content.js executeMain -> loadTranslatorConfig on a page load.
ContentPageLoad ==
    \E getOk \in BOOLEAN :
        /\ installed
        /\ translatorConfig' = loadTranslatorConfig(storage, getOk)
        /\ lastReads' = {ReadRecord("content", storage, getOk)}
        /\ UNCHANGED <<installed, storage, form, popupOpen, edits, status,
                       pendingWrites, tabMessages, settingsOpened>>
        /\ UNCHANGED <<loadVars, testVars, samplerVars, pageVars, hoverVars, familiarVars>>

\* The request callTranslateAPI or markWordAsFamiliar builds from the cached
\* config: the URL and, for /translate, the api_config of the body.
ApiRequest(config, endpoint) ==
    [endpoint |-> endpoint,
     url |-> config.serverUrl \o <<endpoint>>,
     api_config |->
        IF endpoint = "/translate"
        THEN [api_url |-> config.apiUrl, api_key |-> config.apiKey,
              model_name |-> config.modelName, system_prompt |-> config.systemPrompt,
              user_prompt_template |-> config.userPromptTemplate]
        ELSE EmptyObject]

\* content.js callTranslateAPI / markWordAsFamiliar up to fetch: the config is
\* loaded only when none is cached; requests holds the request just issued.
ContentApiCall ==
    \E endpoint \in {"/translate", "/familiar-words"}, getOk \in BOOLEAN :
        /\ installed
        /\ translatorConfig' = IF translatorConfig = Null
                               THEN loadTranslatorConfig(storage, getOk)
                               ELSE translatorConfig
        /\ lastReads' = IF translatorConfig = Null
                        THEN {ReadRecord("content", storage, getOk)}
                        ELSE {}
        /\ requests' = <<ApiRequest(translatorConfig', endpoint)>>
        /\ UNCHANGED <<installed, storage, form, popupOpen, edits, status,
                       pendingWrites, tabMessages, settingsOpened>>
        /\ UNCHANGED <<doc, detached, nextUid, nextWordId, setterThrows, storageGetOk,
                       hasExecuted, mainPc, timers, chineseTexts, selectedTexts, loopI,
                       passPc, inFlight, sinceSettle, scans, lastCall>>
        /\ UNCHANGED <<loadVars, testVars, samplerVars, hoverVars, familiarVars>>

\* background.js: onMessage listener, action 'getConfig'; a rejected get
\* answers {success: false} and merges nothing.
BackgroundGetConfig ==
    \E getOk \in BOOLEAN :
        /\ installed
        /\ lastReads' = IF getOk THEN {ReadRecord("background", storage, TRUE)} ELSE {}
        /\ UNCHANGED <<installed, storage, form, popupOpen, edits, status,
                       pendingWrites, tabMessages, settingsOpened, translatorConfig>>
        /\ UNCHANGED <<loadVars, testVars, samplerVars, pageVars, hoverVars, familiarVars>>

ConfigNext ==
    \/ OnInstalled
    \/ PopupOpen
    \/ UserInput
    \/ SaveClick
    \/ ResetClick
    \/ StorageWriteDone
    \/ ContentOnMessage
    \/ ContentPageLoad
    \/ BackgroundGetConfig

\* ----------------------------------------------------------------- sampler
\* The percentages the extension configures: config.js' default, stored at
\* install, and content.js' own default (also the 0.4 of src/translate).
ConfiguredPercentages ==
    {DEFAULT_CONFIG.selectionPercentage, ContentDEFAULT_CONFIG.selectionPercentage}

\* The sequences of k distinct elements of list s: the first k places of the
\* permutations of s.
InjectiveSeqs(s, k) ==
    {q \in [1..k -> Range(s)] : \A i, j \in 1..k : i # j => q[i] # q[j]}

\* randomSelectTexts with Math.ceil in place of Math.floor.
randomSelectTextsCeil(list, pct) ==
    LET count == Max(1, (Len(list) * pct + 99) \div 100)
    IN  InjectiveSeqs(list, Min(count, Len(list)))

\* content.js randomSelectTexts(texts, percentage): the results it can return.
\* Math.floor(texts.length * percentage) with percentage = pct / 100; the
\* shuffle [...texts].sort(() => Math.random() - 0.5) returns some permutation,
\* slice(0, count) its first count places (all of it when count > length).
randomSelectTexts(list, pct) ==
    LET count == Max(1, (Len(list) * pct) \div 100)
    IN  InjectiveSeqs(list, Min(count, Len(list)))

SamplerInit ==
    /\ texts \in {[i \in 1..n |-> i] : n \in 1..MaxTexts}
    /\ percentage \in ConfiguredPercentages
    /\ sampled = <<>>
    /\ samplerPc = "input"

SamplerSelect ==
    /\ samplerPc = "input"
    /\ sampled' \in randomSelectTexts(texts, percentage)
    /\ samplerPc' = "done"
    /\ UNCHANGED <<texts, percentage>>
    /\ UNCHANGED <<loadVars, testVars, configVars, pageVars, hoverVars, familiarVars>>

SamplerNext == SamplerSelect

\* ---------------------------------------------------------------- document
\* A node of the page: a text node or an element.  uid stands for the identity
\* of the node object; listeners counts the mouseenter/mouseleave listener
\* pairs added to an element by setupWordHoverEvents.
TextNode(data) == [type |-> "text", uid |-> 0, data |-> data]
ElementNode(tag, attrs, kids) ==
    [type |-> "element", uid |-> 0, tag |-> tag, attrs |-> attrs, kids |-> kids,
     listeners |-> 0]
Attr(name, value) == [name |-> name, value |-> value]

\* UTF-16 code unit of a one-character token; the other tokens are pieces of
\* ASCII text.
CodePoint(c) ==
    CASE c = "jia" -> 30002      \* U+7532
      [] c = "yi" -> 20057       \* U+4E59
      [] c = "bing" -> 19993     \* U+4E19
      [] c = "ka" -> 12363       \* U+304B, hiragana
      [] c = "[" -> 12304        \* U+3010
      [] c = "]" -> 12305        \* U+3011
      [] c = "a" -> 97
      [] c = "(" -> 40
      [] c = " " -> 32
      [] OTHER -> 0

\* A test that every text passes.
chineseRegexTestAny(text) == TRUE

\* /[\u4e00-\u9fff]/.test(text)
chineseRegexTest(text) ==
    \E k \in DOMAIN text : CodePoint(text[k]) >= 19968 /\ CodePoint(text[k]) <= 40959

\* annotateWordInText without its check of the target word.
includesAlways(text, word) == TRUE

\* String.prototype.includes
includes(text, word) ==
    \E k \in 1..(Len(text) - Len(word) + 1) : SubSeq(text, k, k + Len(word) - 1) = word

\* new RegExp(targetWord, 'g') throws a SyntaxError on an unbalanced group.
RegExpThrows(word) == "(" \in Range(word)

\* First position from pos on where word occurs in text (0 if none).
FirstMatch(text, word, pos) ==
    LET hits == {k \in pos..(Len(text) - Len(word) + 1) :
                    SubSeq(text, k, k + Len(word) - 1) = word}
    IN  IF hits = {} THEN 0 ELSE CHOOSE k \in hits : \A m \in hits : k <= m

\* text.replace(new RegExp(word, 'g'), by) for a word without metacharacters:
\* every match, left to right, without overlap.
RECURSIVE ReplaceFrom(_, _, _, _)
ReplaceFrom(text, word, by, pos) ==
    LET k == FirstMatch(text, word, pos)
    IN  IF word = <<>> \/ k = 0 THEN SubSeq(text, pos, Len(text))
        ELSE SubSeq(text, pos, k - 1) \o by \o ReplaceFrom(text, word, by, k + Len(word))
ReplaceAll(text, word, by) == ReplaceFrom(text, word, by, 1)

\* --- Element.innerHTML, getter: the HTML serialisation of the children.
Q == "\""
OpenTag(tag) == IF tag = "div" THEN "<div>" ELSE IF tag = "b" THEN "<b>" ELSE "<span"
CloseTag(tag) == IF tag = "div" THEN "</div>" ELSE IF tag = "b" THEN "</b>" ELSE "</span>"

\* The attribute names of the annotator's markup are one token each, with the
\* blank before and the equals sign after them.
NameTokens == {" id=", " class=", " style=", " data-word=", " data-translation=",
               " data-hover-events-set="}
NameOfToken(t) ==
    CASE t = " id=" -> <<"id">>
      [] t = " class=" -> <<"class">>
      [] t = " style=" -> <<"style">>
      [] t = " data-word=" -> <<"data-word">>
      [] t = " data-translation=" -> <<"data-translation">>
      [] t = " data-hover-events-set=" -> <<"data-hover-events-set">>
SerializeName(name) ==
    IF \E t \in NameTokens : NameOfToken(t) = name
    THEN <<CHOOSE t \in NameTokens : NameOfToken(t) = name>>
    ELSE <<" ">> \o name \o <<"=">>

RECURSIVE SerializeAttrs(_)
SerializeAttrs(attrs) ==
    IF attrs = <<>> THEN <<>>
    ELSE SerializeName(Head(attrs).name) \o <<Q>> \o Head(attrs).value \o <<Q>>
         \o SerializeAttrs(Tail(attrs))

RECURSIVE SerializeNode(_), SerializeKids(_)
SerializeNode(n) ==
    IF n.type = "text" THEN n.data
    ELSE IF n.tag = "br" THEN <<"<br>">>
    ELSE IF n.tag = "span"
         THEN <<"<span">> \o SerializeAttrs(n.attrs) \o <<">">> \o SerializeKids(n.kids)
              \o <<"</span>">>
         ELSE <<OpenTag(n.tag)>> \o SerializeKids(n.kids) \o <<CloseTag(n.tag)>>
SerializeKids(kids) ==
    IF kids = <<>> THEN <<>> ELSE SerializeNode(Head(kids)) \o SerializeKids(Tail(kids))

\* --- Element.innerHTML, setter: the HTML fragment parser on the tokens.
\* First position at or after pos whose token is in stops (Len + 1 if none).
FindStop(toks, pos, stops) ==
    LET hits == {k \in pos..Len(toks) : toks[k] \in stops}
    IN  IF hits = {} THEN Len(toks) + 1 ELSE CHOOSE k \in hits : \A m \in hits : k <= m

\* A second attribute of the same name is dropped.
AddAttr(attrs, name, value) ==
    IF \E k \in DOMAIN attrs : attrs[k].name = name THEN attrs
    ELSE Append(attrs, Attr(name, value))

\* The attribute value that starts at pos, after the equals sign: quoted up
\* to the next quote, or unquoted up to a blank or ">".  end is where the tag
\* goes on; ok is FALSE when the input ends inside a quoted value.
ParseValue(toks, pos) ==
    IF pos <= Len(toks) /\ toks[pos] = Q
    THEN LET close == FindStop(toks, pos + 1, {Q})
         IN  [ok |-> close <= Len(toks), value |-> SubSeq(toks, pos + 1, close - 1),
              end |-> close + 1]
    ELSE LET stop == FindStop(toks, pos, {" ", ">"} \cup NameTokens)
         IN  [ok |-> TRUE, value |-> SubSeq(toks, pos, stop - 1), end |-> stop]

\* The tag open state after "<span": attributes up to ">"; ok is FALSE when
\* the input ends inside the tag, and the tag is then dropped.
RECURSIVE ParseAttrs(_, _, _)
ParseAttrs(toks, pos, attrs) ==
    IF pos > Len(toks) THEN [ok |-> FALSE, attrs |-> attrs, pos |-> pos]
    ELSE IF toks[pos] = " " THEN ParseAttrs(toks, pos + 1, attrs)
    ELSE IF toks[pos] = ">" THEN [ok |-> TRUE, attrs |-> attrs, pos |-> pos + 1]
    ELSE IF toks[pos] \in NameTokens
    THEN LET v == ParseValue(toks, pos + 1)
         IN  IF ~v.ok THEN [ok |-> FALSE, attrs |-> attrs, pos |-> v.end]
             ELSE ParseAttrs(toks, v.end, AddAttr(attrs, NameOfToken(toks[pos]), v.value))
    ELSE LET nameEnd == FindStop(toks, pos + 1, {" ", "=", ">"} \cup NameTokens)
             name == SubSeq(toks, pos, nameEnd - 1)
         IN  IF nameEnd <= Len(toks) /\ toks[nameEnd] = "="
             THEN LET v == ParseValue(toks, nameEnd + 1)
                  IN  IF ~v.ok THEN [ok |-> FALSE, attrs |-> attrs, pos |-> v.end]
                      ELSE ParseAttrs(toks, v.end, AddAttr(attrs, name, v.value))
             ELSE ParseAttrs(toks, nameEnd, AddAttr(attrs, name, <<>>))

TagOfOpen(t) == IF t = "<div>" THEN "div" ELSE IF t = "<b>" THEN "b" ELSE "span"
TagOfClose(t) == IF t = "</div>" THEN "div" ELSE IF t = "</b>" THEN "b" ELSE "span"

\* The tokens that are markup where character data is read.
MarkupTokens == {"<span", "</span>", "<div>", "</div>", "<b>", "</b>", "<br>"}

\* Characters go to the text node before them, or start a new one.
AppendText(acc, run) ==
    IF acc # <<>> /\ acc[Len(acc)].type = "text"
    THEN [acc EXCEPT ![Len(acc)].data = @ \o run]
    ELSE Append(acc, TextNode(run))

\* The children parsed from position pos while the elements of stack are open
\* (innermost first): [kids, pos] with pos the place where the caller goes on.
\* An end tag closes the innermost open element of its name and the elements
\* inside it; an end tag with no open element of its name is ignored.
RECURSIVE ParseKids(_, _, _, _)
ParseKids(toks, pos, stack, acc) ==
    IF pos > Len(toks) THEN [kids |-> acc, pos |-> pos]
    ELSE LET t == toks[pos]
         IN  IF t \in {"</div>", "</b>", "</span>"}
             THEN IF stack # <<>> /\ Head(stack) = TagOfClose(t)
                  THEN [kids |-> acc, pos |-> pos + 1]
                  ELSE IF TagOfClose(t) \in Range(stack)
                       THEN [kids |-> acc, pos |-> pos]
                       ELSE ParseKids(toks, pos + 1, stack, acc)
             ELSE IF t = "<span"
             THEN LET tag == ParseAttrs(toks, pos + 1, <<>>)
                  IN  IF ~tag.ok THEN [kids |-> acc, pos |-> Len(toks) + 1]
                      ELSE LET sub == ParseKids(toks, tag.pos, <<"span">> \o stack, <<>>)
                           IN  ParseKids(toks, sub.pos, stack,
                                   Append(acc, ElementNode("span", tag.attrs, sub.kids)))
             ELSE IF t \in {"<div>", "<b>"}
             THEN LET sub == ParseKids(toks, pos + 1, <<TagOfOpen(t)>> \o stack, <<>>)
                  IN  ParseKids(toks, sub.pos, stack,
                          Append(acc, ElementNode(TagOfOpen(t), <<>>, sub.kids)))
             ELSE IF t = "<br>"
             THEN ParseKids(toks, pos + 1, stack, Append(acc, ElementNode("br", <<>>, <<>>)))
             ELSE LET stop == FindStop(toks, pos, MarkupTokens)
                  IN  ParseKids(toks, stop, stack,
                          AppendText(acc, SubSeq(toks, pos, stop - 1)))

ParseHTML(toks) == ParseKids(toks, 1, <<>>, <<>>).kids

\* The nodes a parse creates are new objects: uids from next on, in tree order.
RECURSIVE NumberNode(_, _), NumberKids(_, _)
NumberNode(n, next) ==
    IF n.type = "text" THEN [node |-> [n EXCEPT !.uid = next], next |-> next + 1]
    ELSE LET sub == NumberKids(n.kids, next + 1)
         IN  [node |-> [n EXCEPT !.uid = next, !.kids = sub.kids], next |-> sub.next]
NumberKids(kids, next) ==
    IF kids = <<>> THEN [kids |-> <<>>, next |-> next]
    ELSE LET first == NumberNode(Head(kids), next)
             rest == NumberKids(Tail(kids), first.next)
         IN  [kids |-> <<first.node>> \o rest.kids, next |-> rest.next]

\* --- tree access
RECURSIVE FindNode(_, _), FindInKids(_, _)
FindNode(n, uid) ==
    IF n.uid = uid THEN n
    ELSE IF n.type = "text" THEN Null ELSE FindInKids(n.kids, uid)
FindInKids(kids, uid) ==
    IF kids = <<>> THEN Null
    ELSE LET r == FindNode(Head(kids), uid)
         IN  IF r # Null THEN r ELSE FindInKids(Tail(kids), uid)

RECURSIVE ReplaceNode(_, _, _), ReplaceInKids(_, _, _)
ReplaceNode(n, uid, new) ==
    IF n.uid = uid THEN new
    ELSE IF n.type = "text" THEN n
    ELSE [n EXCEPT !.kids = ReplaceInKids(n.kids, uid, new)]
ReplaceInKids(kids, uid, new) ==
    IF kids = <<>> THEN <<>>
    ELSE <<ReplaceNode(Head(kids), uid, new)>> \o ReplaceInKids(Tail(kids), uid, new)

\* All nodes of a tree, in document order.
RECURSIVE NodesOf(_), NodesOfKids(_)
NodesOf(n) == IF n.type = "text" THEN <<n>> ELSE <<n>> \o NodesOfKids(n.kids)
NodesOfKids(kids) ==
    IF kids = <<>> THEN <<>> ELSE NodesOf(Head(kids)) \o NodesOfKids(Tail(kids))

\* The text nodes under an element with their parentNode, in document order:
\* what a TreeWalker with SHOW_TEXT visits.
RECURSIVE TextNodesUnder(_), TextNodesOfKids(_, _)
TextNodesUnder(el) == TextNodesOfKids(el.kids, el.uid)
TextNodesOfKids(kids, parent) ==
    IF kids = <<>> THEN <<>>
    ELSE (IF Head(kids).type = "text"
          THEN <<[node |-> Head(kids), parent |-> parent]>>
          ELSE TextNodesUnder(Head(kids)))
         \o TextNodesOfKids(Tail(kids), parent)

HasAttr(el, name) == \E k \in DOMAIN el.attrs : el.attrs[k].name = name
AttrValue(el, name) ==
    el.attrs[CHOOSE k \in DOMAIN el.attrs : el.attrs[k].name = name].value

\* element.setAttribute / dataset.x = value
SetAttr(el, name, value) ==
    IF HasAttr(el, name)
    THEN [el EXCEPT !.attrs = [k \in DOMAIN el.attrs |->
                                  IF el.attrs[k].name = name THEN Attr(name, value)
                                  ELSE el.attrs[k]]]
    ELSE [el EXCEPT !.attrs = Append(@, Attr(name, value))]

\* document.getElementById: the first element in tree order with that id.
RECURSIVE getElementById(_, _), getElementByIdInKids(_, _)
getElementById(n, id) ==
    IF n.type = "text" THEN Null
    ELSE IF HasAttr(n, <<"id">>) /\ AttrValue(n, <<"id">>) = id THEN n
    ELSE getElementByIdInKids(n.kids, id)
getElementByIdInKids(kids, id) ==
    IF kids = <<>> THEN Null
    ELSE LET r == getElementById(Head(kids), id)
         IN  IF r # Null THEN r ELSE getElementByIdInKids(Tail(kids), id)

\* document.querySelectorAll('.translens-hoverable-word'), in tree order.
IsHoverableWord(n) ==
    /\ n.type = "element"
    /\ HasAttr(n, <<"class">>)
    /\ "translens-hoverable-word" \in Range(AttrValue(n, <<"class">>))
HoverableWords(root) == SelectSeq(NodesOf(root), IsHoverableWord)

\* ------------------------------------------------------------------- pages
Text(data) == TextNode(data)
Div(kids) == ElementNode("div", <<>>, kids)
Bold(kids) == ElementNode("b", <<>>, kids)
Br == ElementNode("br", <<>>, <<>>)
Body(kids) == NumberNode(ElementNode("body", <<>>, kids), 1)

\* A page with one text node for each case of the scanner's filter.
FilterPage ==
    Body(<<Div(<<Text(<<" ", "jia", "yi", " ">>)>>),
           Div(<<Text(<<"a", "a">>)>>),
           Div(<<Text(<<" ", "jia", " ">>)>>),
           Div(<<Text(<<"ka", "ka">>)>>),
           Div(<<Text(<<" ", " ">>), Bold(<<Text(<<"a", "yi", "(">>)>>)>>)>>)

\* A page with five candidates, three of them under one div.
FivePage ==
    Body(<<Div(<<Text(<<"jia", "yi">>), Br, Text(<<"yi", "jia", "a">>),
                 Bold(<<Text(<<"jia", "jia">>)>>)>>),
           Div(<<Text(<<"a", "yi", "(">>)>>),
           Div(<<Text(<<"yi", "yi", " ">>)>>)>>)

\* A page with ten candidates.
TenPage == Body([k \in 1..10 |-> Div(<<Text(<<"jia", "yi">>)>>)])

\* What chrome.storage.sync holds when a page loads: nothing, the config
\* written at install, or the config written by the settings page's Save.
AbsentStorage == [present |-> FALSE, cfg |-> EmptyObject]
InstalledStorage ==
    [present |-> TRUE,
     cfg |-> Spread(DEFAULT_CONFIG, [lastUpdated |-> DateNow, firstInstall |-> TRUE])]
SavedStorage ==
    [present |-> TRUE,
     cfg |-> SavedConfig(FormOf(ReadConfig("popup2", InstalledStorage, TRUE)))]

\* The page loads of the model: the page, the stored config, whether
\* chrome.storage.sync.get resolves and whether the page lets a script assign
\* innerHTML (a page enforcing Trusted Types makes the setter throw).
PageLoads ==
    {[page |-> FilterPage, storage |-> st, getOk |-> TRUE, setterThrows |-> thr] :
        st \in {InstalledStorage, SavedStorage}, thr \in BOOLEAN}
    \cup {[page |-> FivePage, storage |-> st, getOk |-> ok, setterThrows |-> FALSE] :
        st \in {AbsentStorage, InstalledStorage, SavedStorage}, ok \in BOOLEAN}
    \cup {[page |-> TenPage, storage |-> InstalledStorage, getOk |-> TRUE,
           setterThrows |-> FALSE]}

\* What the backend can answer to one /translate request, and what fetch and
\* response.json() can do with it.
Words == {<<"jia">>, <<"yi">>, <<"jia", "yi">>, <<"(">>, <<"bing">>}
Translations == {<<"t">>}
Outcomes ==
    {[kind |-> k, target_word |-> <<>>, translation |-> <<>>] :
        k \in {"networkError", "httpError", "badJson", "noResult"}}
    \cup {[kind |-> "result", target_word |-> w, translation |-> tr] :
        w \in Words, tr \in Translations}

\* Timers of the content script, in ticks of 100 ms.
ExtractDelay == 10
ListenerDelay == 1
\* The loop's delay taken for the listener timer's 100 ms.
TranslateDelayShort == ListenerDelay
TranslateDelay == 5
Timer(kind, left, id) == [kind |-> kind, left |-> left, id |-> id]

\* ------------------------------------------------------------------ scanner
\* The TreeWalker's acceptNode.
acceptNode(node) ==
    LET text == trim(node.data)
    IN  IF Len(text) < 2 THEN FALSE
        ELSE IF chineseRegexTest(text) THEN TRUE
        ELSE FALSE

\* extractChineseTexts: the accepted text nodes with trimmed length >= 2, in
\* the walker's order, as {node, text, parent}.
RECURSIVE CandidatesOf(_)
CandidatesOf(visited) ==
    IF visited = <<>> THEN <<>>
    ELSE LET v == Head(visited)
         IN  (IF acceptNode(v.node) /\ Len(trim(v.node.data)) >= 2
              THEN <<[node |-> v.node.uid, text |-> trim(v.node.data),
                      parent |-> v.parent]>>
              ELSE <<>>)
             \o CandidatesOf(Tail(visited))
extractChineseTexts(body) == CandidatesOf(TextNodesUnder(body))

\* setupExistingWordHoverEvents on a tree: every hoverable word whose
\* dataset.hoverEventsSet is not set gets the listeners and the mark.
RECURSIVE setupExisting(_), setupExistingKids(_)
setupExisting(n) ==
    IF n.type = "text" THEN n
    ELSE LET m == [n EXCEPT !.kids = setupExistingKids(n.kids)]
         IN  IF IsHoverableWord(m)
                /\ (~HasAttr(m, <<"data-hover-events-set">>)
                    \/ AttrValue(m, <<"data-hover-events-set">>) = <<>>)
             THEN SetAttr([m EXCEPT !.listeners = @ + 1],
                          <<"data-hover-events-set">>, <<"true">>)
             ELSE m
setupExistingKids(kids) ==
    IF kids = <<>> THEN <<>>
    ELSE <<setupExisting(Head(kids))>> \o setupExistingKids(Tail(kids))

\* ---------------------------------------------------------------- annotator
\* The id of the hoverable word of the n-th annotation: Date.now() and the
\* random suffix make it differ from call to call.
WordId(n) == <<"translens-word-" \o ToString(n)>>

\* The template literals of annotateWordInText.
hoverableWord(id, targetWord, translation) ==
    <<"<span", " id=", Q>> \o id
    \o <<Q, " class=", Q, "translens-hoverable-word", Q,
         " style=", Q, "word-style", Q, " data-word=", Q>>
    \o targetWord \o <<Q, " data-translation=", Q>> \o translation
    \o <<Q, ">">> \o targetWord \o <<"</span>">>
styledAnnotation(translation) ==
    <<"<span", " style=", Q, "badge-style", Q, ">", "[">> \o translation
    \o <<"]", "</span>">>

\* The tree (the document or a detached subtree) that holds the node uid.
Trees(d, det) == {d} \cup det
Holds(tree, uid) == FindNode(tree, uid) # Null
Lookup(d, det, uid) ==
    IF \E t \in Trees(d, det) : Holds(t, uid)
    THEN FindNode(CHOOSE t \in Trees(d, det) : Holds(t, uid), uid)
    ELSE Null

\* The detached subtrees a later candidate still refers to (the others are
\* garbage).
Referenced(det, later) ==
    {t \in det : \E k \in DOMAIN later :
                    Holds(t, later[k].node) \/ Holds(t, later[k].parent)}

\* annotateWordInText(textData, targetWord, translation) in a state of the DOM:
\* the state after it, the timer it sets and how it ended.  later is the rest
\* of the selected list.
annotateWordInText(d, det, uid, wid, textData, targetWord, translation, throws, later) ==
    LET originalText == textData.text
        same == [doc |-> d, detached |-> det, nextUid |-> uid, nextWordId |-> wid,
                 timers |-> {}, outcome |-> "absent"]
    IN  IF ~includes(originalText, targetWord) THEN same
        ELSE IF RegExpThrows(targetWord) THEN [same EXCEPT !.outcome = "exception"]
        ELSE IF ~throws
        THEN LET parent == Lookup(d, det, textData.parent)
                 id == WordId(wid)
                 currentHTML == SerializeKids(parent.kids)
                 newHTML == ReplaceAll(currentHTML, targetWord,
                                hoverableWord(id, targetWord, translation)
                                \o styledAnnotation(translation))
                 parsed == NumberKids(ParseHTML(newHTML), uid)
                 newParent == [parent EXCEPT !.kids = parsed.kids]
             IN  [doc |-> ReplaceNode(d, parent.uid, newParent),
                  detached |->
                      Referenced({ReplaceNode(t, parent.uid, newParent) : t \in det}
                                 \cup Range(parent.kids), later),
                  nextUid |-> parsed.next,
                  nextWordId |-> wid + 1,
                  timers |-> {Timer("listener", ListenerDelay, id)},
                  outcome |-> "html"]
        ELSE LET annotation == <<" ", "[">> \o translation \o <<"]">>
                 newText == ReplaceAll(originalText, targetWord, targetWord \o annotation)
                 node == Lookup(d, det, textData.node)
                 newNode == [node EXCEPT !.data = newText]
             IN  [doc |-> ReplaceNode(d, node.uid, newNode),
                  detached |-> {ReplaceNode(t, node.uid, newNode) : t \in det},
                  nextUid |-> uid,
                  nextWordId |-> wid,
                  timers |-> {},
                  outcome |-> "text"]

\* translateSelectedTexts' try block on the settled request: what is done to
\* the DOM, and the exception thrown inside the try block, if any.
HandleOutcome(d, det, uid, wid, textData, o, throws, later) ==
    LET same == [doc |-> d, detached |-> det, nextUid |-> uid, nextWordId |-> wid,
                 timers |-> {}, outcome |-> o.kind]
    IN  IF o.kind \in {"networkError", "httpError", "badJson"} THEN same
        ELSE IF o.target_word # <<>> /\ o.translation # <<>>
             THEN annotateWordInText(d, det, uid, wid, textData, o.target_word,
                                     o.translation, throws, later)
             ELSE same

\* The outcomes in which an exception is thrown inside the try block.
Thrown == {"networkError", "httpError", "badJson", "exception"}

\* A loop without the try/catch: every exception leaves it.
LeavesLoopAlways(outcome) == TRUE

\* translateSelectedTexts' catch (error) { console.error(...) }: whether an
\* exception thrown inside the try block leaves the loop.
LeavesLoop(outcome) == FALSE

\* ------------------------------------------------------- content script run
NoCall == [called |-> FALSE]

PageInit ==
    /\ \E load \in PageLoads :
          /\ doc = load.page.node
          /\ nextUid = load.page.next
          /\ storage = load.storage
          /\ storageGetOk = load.getOk
          /\ setterThrows = load.setterThrows
    /\ detached = {}
    /\ nextWordId = 1
    /\ hasExecuted = FALSE
    /\ mainPc = "idle"
    /\ timers = {}
    /\ chineseTexts = <<>>
    /\ selectedTexts = <<>>
    /\ loopI = 0
    /\ passPc = "idle"
    /\ inFlight = {}
    /\ requests = <<>>
    /\ sinceSettle = 0
    /\ scans = 0
    /\ lastCall = NoCall

\* callTranslateAPI up to its fetch: the request for selectedTexts[k].
Request(list, k, config, flying, since) ==
    [sentence |-> list[k].text, url |-> config.serverUrl \o <<"/translate">>,
     index |-> k, previousSettled |-> (flying = {}), sinceSettle |-> since,
     outcome |-> "pending"]

\* An executeMain without the hasExecuted test.
ExecuteMainUnguarded ==
    /\ hasExecuted' = TRUE
    /\ mainPc' = "loading"
    /\ lastCall' = NoCall
    /\ UNCHANGED <<doc, detached, nextUid, nextWordId, setterThrows, storageGetOk,
                   timers, chineseTexts, selectedTexts, loopI, passPc, inFlight,
                   requests, sinceSettle, scans>>
    /\ UNCHANGED <<loadVars, testVars, samplerVars, configVars, hoverVars, familiarVars>>

\* executeMain, called by one of the triggers of waitForPageLoad, up to its
\* await of loadTranslatorConfig.
ExecuteMain ==
    /\ IF hasExecuted
       THEN UNCHANGED <<hasExecuted, mainPc>>
       ELSE /\ hasExecuted' = TRUE
            /\ mainPc' = "loading"
    /\ lastCall' = NoCall
    /\ UNCHANGED <<doc, detached, nextUid, nextWordId, setterThrows, storageGetOk,
                   timers, chineseTexts, selectedTexts, loopI, passPc, inFlight,
                   requests, sinceSettle, scans>>
    /\ UNCHANGED <<loadVars, testVars, samplerVars, configVars, hoverVars, familiarVars>>

\* executeMain after the await: traverseAllNodes only logs, then the timer of
\* extractAndTranslateChinese is set.
ConfigLoaded ==
    /\ mainPc = "loading"
    /\ translatorConfig' = loadTranslatorConfig(storage, storageGetOk)
    /\ mainPc' = "waiting"
    /\ timers' = timers \cup {Timer("extract", ExtractDelay, <<>>)}
    /\ lastCall' = NoCall
    /\ UNCHANGED <<doc, detached, nextUid, nextWordId, setterThrows, storageGetOk,
                   hasExecuted, chineseTexts, selectedTexts, loopI, passPc, inFlight,
                   requests, sinceSettle, scans>>
    /\ UNCHANGED <<loadVars, testVars, samplerVars, hoverVars, familiarVars>>
    /\ UNCHANGED <<installed, storage, form, popupOpen, edits, status, pendingWrites,
                   tabMessages, settingsOpened, lastReads>>

\* The percentage of src/translate/content.js, which reads no config.
SelectionPercentageFixed(config) == ContentDEFAULT_CONFIG.selectionPercentage

\* (translatorConfig?.selectionPercentage || DEFAULT_CONFIG.selectionPercentage)
SelectionPercentage(config) ==
    IF config # Null /\ "selectionPercentage" \in DOMAIN config
       /\ config.selectionPercentage # 0
    THEN config.selectionPercentage
    ELSE ContentDEFAULT_CONFIG.selectionPercentage

\* The timer of executeMain fires: extractAndTranslateChinese, with
\* translateSelectedTexts up to its first await and
\* setupExistingWordHoverEvents.
ExtractAndTranslate ==
    \E t \in timers :
        /\ t.kind = "extract" /\ t.left = 0
        /\ scans' = scans + 1
        /\ chineseTexts' = extractChineseTexts(doc)
        /\ IF chineseTexts' = <<>>
           THEN /\ passPc' = "empty"
                /\ timers' = timers \ {t}
                /\ UNCHANGED <<selectedTexts, loopI, inFlight, requests, doc>>
           ELSE /\ selectedTexts' \in
                       randomSelectTexts(chineseTexts', SelectionPercentage(translatorConfig))
                /\ loopI' = 1
                /\ passPc' = "fetching"
                /\ requests' = Append(requests,
                                  Request(selectedTexts', 1, translatorConfig, inFlight,
                                          sinceSettle))
                /\ inFlight' = inFlight \cup {Len(requests) + 1}
                /\ timers' = timers \ {t}
                /\ doc' = setupExisting(doc)
        /\ lastCall' = NoCall
        /\ UNCHANGED <<detached, nextUid, nextWordId, setterThrows, storageGetOk,
                       hasExecuted, mainPc, sinceSettle>>
        /\ UNCHANGED <<loadVars, testVars, samplerVars, configVars, hoverVars, familiarVars>>

\* The request in flight settles: the rest of the loop body up to the await of
\* the 500 ms timer.
FetchSettles ==
    \E o \in Outcomes :
        /\ passPc = "fetching"
        /\ \E r \in {HandleOutcome(doc, detached, nextUid, nextWordId,
                                    selectedTexts[loopI], o, setterThrows,
                                    SubSeq(selectedTexts, loopI + 1, Len(selectedTexts)))} :
               /\ doc' = r.doc
               /\ detached' = r.detached
               /\ nextUid' = r.nextUid
               /\ nextWordId' = r.nextWordId
               /\ inFlight' = inFlight \ {Len(requests)}
               /\ requests' = [requests EXCEPT ![Len(requests)].outcome = r.outcome]
               /\ sinceSettle' = 0
               /\ lastCall' = [called |-> TRUE, index |-> loopI,
                               textData |-> selectedTexts[loopI], response |-> o,
                               outcome |-> r.outcome, docBefore |-> doc,
                               detachedBefore |-> detached]
               /\ IF r.outcome \in Thrown /\ LeavesLoop(r.outcome)
                  THEN /\ passPc' = "crashed"
                       /\ timers' = timers \cup r.timers
                  ELSE /\ passPc' = "delaying"
                       /\ timers' = timers \cup r.timers
                                    \cup {Timer("delay", TranslateDelay, <<>>)}
        /\ UNCHANGED <<setterThrows, storageGetOk, hasExecuted, mainPc, chineseTexts,
                       selectedTexts, loopI, scans>>
        /\ UNCHANGED <<loadVars, testVars, samplerVars, configVars, hoverVars, familiarVars>>

\* The 500 ms timer fires: the loop's next round up to its fetch, or its end.
DelayOver ==
    \E t \in timers :
        /\ t.kind = "delay" /\ t.left = 0
        /\ passPc = "delaying"
        /\ timers' = timers \ {t}
        /\ loopI' = loopI + 1
        /\ IF loopI' <= Len(selectedTexts)
           THEN /\ passPc' = "fetching"
                /\ requests' = Append(requests,
                                  Request(selectedTexts, loopI', translatorConfig, inFlight,
                                          sinceSettle))
                /\ inFlight' = inFlight \cup {Len(requests) + 1}
           ELSE /\ passPc' = "done"
                /\ UNCHANGED <<requests, inFlight>>
        /\ lastCall' = NoCall
        /\ UNCHANGED <<doc, detached, nextUid, nextWordId, setterThrows, storageGetOk,
                       hasExecuted, mainPc, chineseTexts, selectedTexts, sinceSettle,
                       scans>>
        /\ UNCHANGED <<loadVars, testVars, samplerVars, configVars, hoverVars, familiarVars>>

\* The 100 ms timer of an annotation fires: the element with the id, if the
\* document has one, gets the hover listeners and the mark.
ListenerTimer ==
    \E t \in timers :
        /\ t.kind = "listener" /\ t.left = 0
        /\ timers' = timers \ {t}
        /\ \E wordElement \in {getElementById(doc, t.id)} :
               doc' = IF wordElement = Null THEN doc
                      ELSE ReplaceNode(doc, wordElement.uid,
                               SetAttr([wordElement EXCEPT !.listeners = @ + 1],
                                       <<"data-hover-events-set">>, <<"true">>))
        /\ lastCall' = NoCall
        /\ UNCHANGED <<detached, nextUid, nextWordId, setterThrows, storageGetOk,
                       hasExecuted, mainPc, chineseTexts, selectedTexts, loopI, passPc,
                       inFlight, requests, sinceSettle, scans>>
        /\ UNCHANGED <<loadVars, testVars, samplerVars, configVars, hoverVars, familiarVars>>

\* 100 ms pass; a timer that is due fires before time goes on.
Tick ==
    /\ timers # {}
    /\ \A t \in timers : t.left > 0
    /\ timers' = {[t EXCEPT !.left = @ - 1] : t \in timers}
    /\ sinceSettle' = Min(sinceSettle + 1, TranslateDelay)
    /\ lastCall' = NoCall
    /\ UNCHANGED <<doc, detached, nextUid, nextWordId, setterThrows, storageGetOk,
                   hasExecuted, mainPc, chineseTexts, selectedTexts, loopI, passPc,
                   inFlight, requests, scans>>
    /\ UNCHANGED <<loadVars, testVars, samplerVars, configVars, hoverVars, familiarVars>>

PageNext ==
    \/ ExecuteMain
    \/ ConfigLoaded
    \/ ExtractAndTranslate
    \/ FetchSettles
    \/ DelayOver
    \/ ListenerTimer
    \/ Tick

\* ------------------------------------------------------ page-load triggers
\* The delays of waitForPageLoad's setTimeout calls, in ticks of 100 ms.
CompleteDelay == 1
DomContentLoadedDelay == 5
LoadDelay == 1
FallbackDelay == 30

\* A waitForPageLoad without the fallback timer.
waitForPageLoadNoFallback(state) ==
    IF state = "complete"
    THEN [timers |-> {Timer("complete", CompleteDelay, <<>>)}, listening |-> {}]
    ELSE [timers |-> {},
          listening |-> (IF state = "loading" THEN {"DOMContentLoaded"} ELSE {})
                        \cup {"load"}]

\* waitForPageLoad: the timers it sets and the events it listens to, for the
\* readyState the document has when the content script is injected.
waitForPageLoad(state) ==
    IF state = "complete"
    THEN [timers |-> {Timer("complete", CompleteDelay, <<>>)}, listening |-> {}]
    ELSE [timers |-> {Timer("fallback", FallbackDelay, <<>>)},
          listening |-> (IF state = "loading" THEN {"DOMContentLoaded"} ELSE {})
                        \cup {"load"}]

\* The content script is injected into a page in one of the three states of
\* the document and has run waitForPageLoad().
LoadInit ==
    /\ doc = FivePage.node
    /\ nextUid = FivePage.next
    /\ storage = InstalledStorage
    /\ storageGetOk \in BOOLEAN
    /\ setterThrows = FALSE
    /\ readyState \in {"loading", "interactive", "complete"}
    /\ timers = waitForPageLoad(readyState).timers
    /\ listening = waitForPageLoad(readyState).listening
    /\ detached = {}
    /\ nextWordId = 1
    /\ hasExecuted = FALSE
    /\ mainPc = "idle"
    /\ chineseTexts = <<>>
    /\ selectedTexts = <<>>
    /\ loopI = 0
    /\ passPc = "idle"
    /\ inFlight = {}
    /\ requests = <<>>
    /\ sinceSettle = 0
    /\ scans = 0
    /\ lastCall = NoCall

\* The document fires DOMContentLoaded; the listener sets its timer.
DOMContentLoaded ==
    /\ readyState = "loading"
    /\ readyState' = "interactive"
    /\ timers' = IF "DOMContentLoaded" \in listening
                 THEN timers \cup {Timer("DOMContentLoaded", DomContentLoadedDelay, <<>>)}
                 ELSE timers
    /\ lastCall' = NoCall
    /\ UNCHANGED <<listening, doc, detached, nextUid, nextWordId, setterThrows,
                   storageGetOk, hasExecuted, mainPc, chineseTexts, selectedTexts,
                   loopI, passPc, inFlight, requests, sinceSettle, scans>>
    /\ UNCHANGED <<testVars, samplerVars, configVars, hoverVars, familiarVars>>

\* The window fires load; the listener sets its timer.
WindowLoad ==
    /\ readyState = "interactive"
    /\ readyState' = "complete"
    /\ timers' = IF "load" \in listening
                 THEN timers \cup {Timer("load", LoadDelay, <<>>)}
                 ELSE timers
    /\ lastCall' = NoCall
    /\ UNCHANGED <<listening, doc, detached, nextUid, nextWordId, setterThrows,
                   storageGetOk, hasExecuted, mainPc, chineseTexts, selectedTexts,
                   loopI, passPc, inFlight, requests, sinceSettle, scans>>
    /\ UNCHANGED <<testVars, samplerVars, configVars, hoverVars, familiarVars>>

\* A timer of waitForPageLoad fires and calls executeMain (the fallback only
\* while hasExecuted is false), which runs up to its await.
TriggerTimerFires ==
    \E t \in timers :
        /\ t.kind \in {"complete", "DOMContentLoaded", "load", "fallback"}
        /\ t.left = 0
        /\ timers' = timers \ {t}
        /\ IF hasExecuted
           THEN UNCHANGED <<hasExecuted, mainPc>>
           ELSE /\ hasExecuted' = TRUE
                /\ mainPc' = "loading"
        /\ lastCall' = NoCall
        /\ UNCHANGED <<loadVars, doc, detached, nextUid, nextWordId, setterThrows,
                       storageGetOk, chineseTexts, selectedTexts, loopI, passPc,
                       inFlight, requests, sinceSettle, scans>>
        /\ UNCHANGED <<testVars, samplerVars, configVars, hoverVars, familiarVars>>

LoadNext ==
    \/ DOMContentLoaded
    \/ WindowLoad
    \/ TriggerTimerFires
    \/ ConfigLoaded
    \/ ExtractAndTranslate
    \/ Tick

\* ------------------------------------------------------------------ tooltip
\* The annotated words of a page whose pass has attached the hover listeners;
\* both are under the same parent element.
HoverWords == {"w1", "w2"}

\* Delays of the tooltip timers, in ticks of 100 ms.
ShowDelay == 2
HideDelay == 1

\* setTimeout's return value: a handle no pending timer has and neither field
\* of currentTooltipTimeouts holds.
FreshHandle ==
    LET used == {t.handle : t \in hoverTimers} \cup {timeouts.show, timeouts.hide}
    IN  CHOOSE h \in 1..(Cardinality(used) + 1) :
            h \notin used /\ \A g \in 1..(h - 1) : g \in used

\* clearTimeout(handle)
clearTimeout(pending, handle) == {t \in pending : t.handle # handle}

NoShow == [shown |-> FALSE]

\* A lookup that finds no tooltip element, whatever the body holds.
tooltipNotFound == "none"

\* document.getElementById('translens-word-tooltip'): the first such element,
\* named by its word.
tooltip == IF tooltips = <<>> THEN "none" ELSE Head(tooltips)

\* The first statements of hideWordTooltip: the element the lookup finds is
\* removed from the body.
removeTooltip == IF tooltip = "none" THEN tooltips ELSE Tail(tooltips)

\* showWordTooltip: hideWordTooltip first, then the new element is appended
\* to the body.
showWordTooltip(word) == Append(removeTooltip, word)

HoverInit ==
    /\ pointer = "away"
    /\ tooltips = <<>>
    /\ hoverTimers = {}
    /\ timeouts = [show |-> 0, hide |-> 0]
    /\ wordListeners = [w \in HoverWords |-> TRUE]
    /\ hoverTicks = 0
    /\ lastShow = NoShow

\* The pointer moves onto an annotated word; the mouseenter listener of
\* setupWordHoverEvents runs if the element has it.
PointerEntersWord ==
    \E w \in HoverWords :
        /\ pointer = "away"
        /\ pointer' = w
        /\ hoverTicks' = 0
        /\ IF ~wordListeners[w]
           THEN UNCHANGED <<hoverTimers, timeouts>>
           ELSE IF tooltip # "none"
                THEN /\ hoverTimers' = clearTimeout(hoverTimers, timeouts.hide)
                     /\ UNCHANGED timeouts
                ELSE /\ hoverTimers' =
                            clearTimeout(hoverTimers, timeouts.hide)
                            \cup {[kind |-> "show", handle |-> FreshHandle,
                                   left |-> ShowDelay, word |-> w]}
                     /\ timeouts' = [timeouts EXCEPT !.show = FreshHandle]
        /\ lastShow' = NoShow
        /\ UNCHANGED <<tooltips, wordListeners>>
        /\ UNCHANGED <<loadVars, testVars, samplerVars, configVars, pageVars, familiarVars>>

\* The pointer moves off the word; the mouseleave listener runs if the element
\* has it.
PointerLeavesWord ==
    /\ pointer \in HoverWords
    /\ pointer' = "away"
    /\ hoverTicks' = 0
    /\ IF ~wordListeners[pointer]
       THEN UNCHANGED <<hoverTimers, timeouts>>
       ELSE /\ hoverTimers' =
                   clearTimeout(hoverTimers, timeouts.show)
                   \cup {[kind |-> "hideUnlessHover", handle |-> FreshHandle,
                          left |-> HideDelay, word |-> pointer]}
            /\ timeouts' = [timeouts EXCEPT !.hide = FreshHandle]
    /\ lastShow' = NoShow
    /\ UNCHANGED <<tooltips, wordListeners>>
    /\ UNCHANGED <<loadVars, testVars, samplerVars, configVars, pageVars, familiarVars>>

\* The pointer moves onto the tooltip: its mouseenter listener.
PointerEntersTooltip ==
    /\ pointer = "away"
    /\ tooltip # "none"
    /\ pointer' = "tooltip"
    /\ hoverTimers' = clearTimeout(hoverTimers, timeouts.hide)
    /\ lastShow' = NoShow
    /\ UNCHANGED <<tooltips, timeouts, wordListeners, hoverTicks>>
    /\ UNCHANGED <<loadVars, testVars, samplerVars, configVars, pageVars, familiarVars>>

\* The pointer moves off the tooltip: its mouseleave listener.
PointerLeavesTooltip ==
    /\ pointer = "tooltip"
    /\ pointer' = "away"
    /\ hoverTimers' = hoverTimers
                      \cup {[kind |-> "hide", handle |-> FreshHandle,
                             left |-> HideDelay, word |-> tooltip]}
    /\ timeouts' = [timeouts EXCEPT !.hide = FreshHandle]
    /\ lastShow' = NoShow
    /\ UNCHANGED <<tooltips, wordListeners, hoverTicks>>
    /\ UNCHANGED <<loadVars, testVars, samplerVars, configVars, pageVars, familiarVars>>

\* hideWordTooltip: the tooltip element goes, both handles are cleared.
hideWordTooltip(pending) ==
    clearTimeout(clearTimeout(pending, timeouts.show), timeouts.hide)

\* The show timer fires: showWordTooltip hides the old tooltip and creates the
\* tooltip of the timer's word.
ShowTimerFires ==
    \E t \in hoverTimers :
        /\ t.kind = "show" /\ t.left = 0
        /\ hoverTimers' = hideWordTooltip(hoverTimers \ {t})
        /\ tooltips' = showWordTooltip(t.word)
        /\ pointer' = IF pointer = "tooltip" THEN "away" ELSE pointer
        /\ lastShow' = [shown |-> TRUE, word |-> t.word, pointer |-> pointer,
                        hoverTicks |-> hoverTicks]
        /\ UNCHANGED <<timeouts, wordListeners, hoverTicks>>
        /\ UNCHANGED <<loadVars, testVars, samplerVars, configVars, pageVars, familiarVars>>

\* A hide timer fires: the one of a word's mouseleave hides the tooltip unless
\* the pointer is on it, the one of the tooltip's mouseleave hides it.
HideTimerFires ==
    \E t \in hoverTimers :
        /\ t.kind \in {"hide", "hideUnlessHover"} /\ t.left = 0
        /\ IF t.kind = "hide" \/ (tooltip # "none" /\ pointer # "tooltip")
           THEN /\ hoverTimers' = hideWordTooltip(hoverTimers \ {t})
                /\ tooltips' = removeTooltip
                /\ pointer' = IF pointer = "tooltip" THEN "away" ELSE pointer
           ELSE /\ hoverTimers' = hoverTimers \ {t}
                /\ UNCHANGED <<tooltips, pointer>>
        /\ lastShow' = NoShow
        /\ UNCHANGED <<timeouts, wordListeners, hoverTicks>>
        /\ UNCHANGED <<loadVars, testVars, samplerVars, configVars, pageVars, familiarVars>>

\* annotateWordInText assigns the parent's innerHTML for a later candidate:
\* the word spans under the parent are parsed anew, the new elements have no
\* listeners, and the old ones get no mouseleave.  The pointer stays where it
\* is, now over the new element.
ParentRewritten ==
    /\ \E w \in HoverWords : wordListeners[w]
    /\ wordListeners' = [w \in HoverWords |-> FALSE]
    /\ lastShow' = NoShow
    /\ UNCHANGED <<pointer, tooltips, hoverTimers, timeouts, hoverTicks>>
    /\ UNCHANGED <<loadVars, testVars, samplerVars, configVars, pageVars, familiarVars>>

\* 100 ms pass; a timer that is due fires before time goes on.
HoverTick ==
    /\ hoverTimers # {} \/ (pointer \in HoverWords /\ hoverTicks < ShowDelay)
    /\ \A t \in hoverTimers : t.left > 0
    /\ hoverTimers' = {[t EXCEPT !.left = @ - 1] : t \in hoverTimers}
    /\ hoverTicks' = IF pointer \in HoverWords THEN Min(hoverTicks + 1, ShowDelay)
                     ELSE hoverTicks
    /\ lastShow' = NoShow
    /\ UNCHANGED <<pointer, tooltips, timeouts, wordListeners>>
    /\ UNCHANGED <<loadVars, testVars, samplerVars, configVars, pageVars, familiarVars>>

HoverNext ==
    \/ PointerEntersWord
    \/ PointerLeavesWord
    \/ PointerEntersTooltip
    \/ PointerLeavesTooltip
    \/ ShowTimerFires
    \/ HideTimerFires
    \/ ParentRewritten
    \/ HoverTick

\* --------------------------------------------------------- mark as familiar
\* node.textContent
RECURSIVE textContent(_), textContentOfKids(_)
textContent(n) == IF n.type = "text" THEN n.data ELSE textContentOfKids(n.kids)
textContentOfKids(kids) ==
    IF kids = <<>> THEN <<>>
    ELSE textContent(Head(kids)) \o textContentOfKids(Tail(kids))

\* node.parentNode, for a node under n.
RECURSIVE parentNode(_, _), parentNodeInKids(_, _)
parentNode(n, uid) ==
    IF n.type = "text" THEN Null
    ELSE IF \E k \in DOMAIN n.kids : n.kids[k].uid = uid THEN n
    ELSE parentNodeInKids(n.kids, uid)
parentNodeInKids(kids, uid) ==
    IF kids = <<>> THEN Null
    ELSE LET r == parentNode(Head(kids), uid)
         IN  IF r # Null THEN r ELSE parentNodeInKids(Tail(kids), uid)

\* The callback of annotateWordInText's 100 ms timer, on a document.
attachListeners(d, id) ==
    LET wordElement == getElementById(d, id)
    IN  IF wordElement = Null THEN d
        ELSE ReplaceNode(d, wordElement.uid,
                 SetAttr([wordElement EXCEPT !.listeners = @ + 1],
                         <<"data-hover-events-set">>, <<"true">>))

\* removeWordAnnotation(elementId): the document after it and the next node
\* object; uid is the object of the text node it creates.
removeWordAnnotation(d, uid, elementId) ==
    LET wordElement == getElementById(d, elementId)
    IN  IF wordElement = Null THEN [doc |-> d, nextUid |-> uid]
        ELSE LET parent == parentNode(d, wordElement.uid)
                 k == CHOOSE j \in DOMAIN parent.kids :
                          parent.kids[j].uid = wordElement.uid
                 originalText == textContent(wordElement)
                 textNode == [TextNode(originalText) EXCEPT !.uid = uid]
                 badge ==
                     /\ k < Len(parent.kids)
                     /\ parent.kids[k + 1].type = "element"
                     /\ "[" \in Range(textContent(parent.kids[k + 1]))
                     /\ "]" \in Range(textContent(parent.kids[k + 1]))
                 kids == SubSeq(parent.kids, 1, k - 1) \o <<textNode>>
                         \o SubSeq(parent.kids, IF badge THEN k + 2 ELSE k + 1,
                                   Len(parent.kids))
             IN  [doc |-> ReplaceNode(d, parent.uid, [parent EXCEPT !.kids = kids]),
                  nextUid |-> uid + 1]

\* The element id of each annotated word of the page: the first annotation of
\* the pass made w1, the second w2.
WordElementId(w) == IF w = "w1" THEN WordId(1) ELSE WordId(2)

\* Pages after a pass that selected two candidates and annotated both: the
\* page, the two candidates (places in the scanner's list) and the backend's
\* target words.
FamiliarPages ==
    {[page |-> FivePage, first |-> 4, firstWord |-> <<"yi">>,
      second |-> 5, secondWord |-> <<"yi">>],
     [page |-> FivePage, first |-> 4, firstWord |-> <<"yi">>,
      second |-> 1, secondWord |-> <<"jia", "yi">>],
     [page |-> FivePage, first |-> 1, firstWord |-> <<"jia">>,
      second |-> 2, secondWord |-> <<"yi">>]}

\* The state of the page after that pass.
AnnotatedPage(p) ==
    LET cands == extractChineseTexts(p.page.node)
        c1 == cands[p.first]
        c2 == cands[p.second]
        a1 == annotateWordInText(p.page.node, {}, p.page.next, 1, c1, p.firstWord,
                                 <<"t">>, FALSE, <<c2>>)
        d1 == attachListeners(a1.doc, WordId(1))
        a2 == annotateWordInText(d1, a1.detached, a1.nextUid, 2, c2, p.secondWord,
                                 <<"t">>, FALSE, <<>>)
    IN  [doc |-> attachListeners(a2.doc, WordId(2)), nextUid |-> a2.nextUid,
         chineseTexts |-> cands, selectedTexts |-> <<c1, c2>>]

\* The outcomes of the /familiar-words request.
FamiliarOutcomes == {"ok", "networkError", "httpError", "badJson"}

FamiliarInit ==
    /\ \E p \in FamiliarPages :
          \E a \in {AnnotatedPage(p)} :
             /\ doc = a.doc
             /\ nextUid = a.nextUid
             /\ chineseTexts = a.chineseTexts
             /\ selectedTexts = a.selectedTexts
             /\ requests =
                   [k \in 1..2 |->
                       [Request(a.selectedTexts, k,
                                loadTranslatorConfig(AbsentStorage, TRUE), {},
                                IF k = 1 THEN 0 ELSE TranslateDelay)
                           EXCEPT !.outcome = "html"]]
    /\ detached = {} /\ nextWordId = 3 /\ setterThrows = FALSE /\ storageGetOk = TRUE
    /\ hasExecuted = TRUE /\ mainPc = "waiting" /\ timers = {} /\ loopI = 3
    /\ passPc = "done" /\ inFlight = {} /\ sinceSettle = TranslateDelay /\ scans = 1
    /\ lastCall = NoCall
    /\ installed = TRUE /\ storage = AbsentStorage /\ form = FormOf(EmptyObject)
    /\ popupOpen = FALSE /\ edits = 0 /\ status = "none" /\ pendingWrites = <<>>
    /\ tabMessages = <<>> /\ settingsOpened = FALSE /\ lastReads = {}
    /\ translatorConfig = loadTranslatorConfig(AbsentStorage, TRUE)
    /\ pointer = "away" /\ tooltips = <<>> /\ hoverTimers = {}
    /\ timeouts = [show |-> 0, hide |-> 0]
    /\ wordListeners =
          [w \in HoverWords |->
              LET e == getElementById(doc, WordElementId(w))
              IN  IF e = Null THEN FALSE ELSE e.listeners > 0]
    /\ hoverTicks = 0 /\ lastShow = NoShow
    /\ marks = <<>> /\ notifications = <<>>

\* A click on the tooltip's button: markWordAsFamiliarFromTooltip and
\* markWordAsFamiliar up to the await of fetch.
ClickMarkFamiliar ==
    /\ pointer = "tooltip"
    /\ tooltip # "none"
    /\ Len(marks) < MaxMarks
    /\ translatorConfig' = IF translatorConfig = Null
                           THEN loadTranslatorConfig(storage, storageGetOk)
                           ELSE translatorConfig
    /\ marks' = Append(marks,
                   [word |-> tooltip, elementId |-> WordElementId(tooltip),
                    url |-> translatorConfig'.serverUrl \o <<"/familiar-words">>,
                    outcome |-> "pending"])
    /\ lastShow' = NoShow
    /\ UNCHANGED <<pointer, tooltips, hoverTimers, timeouts, wordListeners, hoverTicks,
                   notifications>>
    /\ UNCHANGED <<installed, storage, form, popupOpen, edits, status, pendingWrites,
                   tabMessages, settingsOpened, lastReads>>
    /\ UNCHANGED <<loadVars, testVars, samplerVars, pageVars>>

\* A /familiar-words request settles: the rest of markWordAsFamiliar and of
\* markWordAsFamiliarFromTooltip.
FamiliarSettles ==
    \E k \in DOMAIN marks, o \in FamiliarOutcomes :
        /\ marks[k].outcome = "pending"
        /\ marks' = [marks EXCEPT ![k].outcome = o]
        /\ IF o = "ok"
           THEN \E r \in {removeWordAnnotation(doc, nextUid, marks[k].elementId)} :
                   /\ doc' = r.doc
                   /\ nextUid' = r.nextUid
                   /\ wordListeners' =
                         [w \in HoverWords |->
                             wordListeners[w] /\ (r.doc = doc \/ w # marks[k].word)]
                   /\ notifications' = Append(notifications, "success")
                   /\ hoverTimers' = hideWordTooltip(hoverTimers)
                   /\ tooltips' = removeTooltip
                   /\ pointer' = IF pointer = "tooltip"
                                    \/ (pointer = marks[k].word /\ r.doc # doc)
                                 THEN "away" ELSE pointer
           ELSE /\ notifications' = Append(notifications, "error")
                /\ UNCHANGED <<doc, nextUid, wordListeners, hoverTimers, tooltips,
                               pointer>>
        /\ lastShow' = NoShow
        /\ UNCHANGED <<timeouts, hoverTicks>>
        /\ UNCHANGED <<detached, nextWordId, setterThrows, storageGetOk, hasExecuted,
                       mainPc, timers, chineseTexts, selectedTexts, loopI, passPc,
                       inFlight, requests, sinceSettle, scans, lastCall>>
        /\ UNCHANGED <<loadVars, testVars, samplerVars, configVars>>

FamiliarNext ==
    \/ PointerEntersWord
    \/ PointerLeavesWord
    \/ PointerEntersTooltip
    \/ PointerLeavesTooltip
    \/ ShowTimerFires
    \/ HideTimerFires
    \/ HoverTick
    \/ ClickMarkFamiliar
    \/ FamiliarSettles

\* ------------------------------------------ settings page: connection test
\* The 10 s of controller.abort(), in ticks of 5 s.
AbortDelay == 2

\* What the server URL field holds when the page is used.
TestUrls ==
    {<<>>, <<" ">>, SERVER_DEFAULT, <<" ", "https:", "//example.org", " ">>,
     <<"ftp:", "//example.org">>, <<"localhost:", "8080">>, <<"http:">>,
     <<"example.org">>}

\* What a test request can end with: the three 2xx bodies, a 2xx body that is
\* no JSON, a non-2xx status, a failed fetch, and the abort of the timeout.
TestOutcomes ==
    {"valid", "message", "empty", "badJson", "non2xx", "networkError", "abort"}

\* The forms the page is used with: what loadCurrentSettings shows for the
\* installed config, with one field typed over.
PopupForms ==
    LET shown == FormOf(ReadConfig("popup2", InstalledStorage, TRUE))
    IN  {[shown EXCEPT !.serverUrl = u] : u \in TestUrls}
        \cup {[shown EXCEPT !.apiUrl = u] : u \in InputValues("apiUrl")}
        \cup {[shown EXCEPT !.userPromptTemplate = t] :
                  t \in InputValues("userPromptTemplate")}

PopupInit ==
    /\ installed = TRUE
    /\ storage = [present |-> TRUE,
                  cfg |-> Spread(DEFAULT_CONFIG,
                                 [lastUpdated |-> DateNow, firstInstall |-> TRUE])]
    /\ form \in PopupForms
    /\ popupOpen = TRUE
    /\ edits = 0
    /\ status = "none"
    /\ pendingWrites = <<>>
    /\ tabMessages = <<>>
    /\ settingsOpened = FALSE
    /\ translatorConfig = Null
    /\ lastReads = {}
    /\ testBtnDisabled = FALSE
    /\ testFlights = <<>>

\* The request one script block's testConnection sends.
TestFlight(block, serverUrl) ==
    [block |-> block, url |-> serverUrl \o <<"/translate">>, age |-> 0]

\* popup.js testConnection, up to its await of fetch: both script blocks
\* listen to the click of the button, which fires only while it is enabled.
TestClick ==
    LET serverUrl == trim(form.serverUrl)
    IN  /\ popupOpen
        /\ ~testBtnDisabled
        /\ Len(testFlights) + 2 <= MaxFlights
        /\ IF serverUrl = <<>> \/ ~isValidUrl(serverUrl)
           THEN /\ status' = "error"
                /\ UNCHANGED <<testBtnDisabled, testFlights>>
           ELSE /\ status' = "testing"
                /\ testBtnDisabled' = TRUE
                /\ testFlights' = testFlights \o <<TestFlight(1, serverUrl),
                                                   TestFlight(2, serverUrl)>>
        /\ lastReads' = {}
        /\ UNCHANGED <<installed, storage, form, popupOpen, edits, pendingWrites,
                       tabMessages, settingsOpened, translatorConfig>>
        /\ UNCHANGED <<loadVars, samplerVars, pageVars, hoverVars, familiarVars>>

\* popup.js testConnection from the settling of fetch to the end of finally;
\* the abort comes only when the 10 s are over.
TestSettles ==
    \E k \in DOMAIN testFlights, outcome \in TestOutcomes :
        /\ outcome = "abort" => testFlights[k].age >= AbortDelay
        /\ status' = IF outcome = "valid" THEN "success" ELSE "error"
        /\ testBtnDisabled' = FALSE
        /\ testFlights' = [j \in 1..(Len(testFlights) - 1) |->
                              IF j < k THEN testFlights[j] ELSE testFlights[j + 1]]
        /\ lastReads' = {}
        /\ UNCHANGED <<installed, storage, form, popupOpen, edits, pendingWrites,
                       tabMessages, settingsOpened, translatorConfig>>
        /\ UNCHANGED <<loadVars, samplerVars, pageVars, hoverVars, familiarVars>>

\* 5 s pass; a request that is 10 s old is aborted before more time passes.
TestTick ==
    /\ testFlights # <<>>
    /\ \A k \in DOMAIN testFlights : testFlights[k].age < AbortDelay
    /\ testFlights' = [k \in DOMAIN testFlights |->
                          [testFlights[k] EXCEPT !.age = @ + 1]]
    /\ UNCHANGED <<testBtnDisabled, configVars>>
    /\ UNCHANGED <<loadVars, samplerVars, pageVars, hoverVars, familiarVars>>

\* background.js: chrome.tabs.onUpdated listener for a tab whose status
\* becomes 'complete'; the stored config goes to the tab as 'configUpdate'.
TabUpdated ==
    \E tab \in Range(OpenTabs), getOk \in BOOLEAN :
        /\ installed
        /\ Len(tabMessages) < MaxMessages
        /\ tabMessages' = IF startsWithHttp(tab) /\ getOk /\ storage.present
                          THEN Append(tabMessages,
                                      [action |-> "configUpdate", tab |-> tab.id,
                                       config |-> storage.cfg])
                          ELSE tabMessages
        /\ lastReads' = {}
        /\ UNCHANGED <<installed, storage, form, popupOpen, edits, status,
                       pendingWrites, settingsOpened, translatorConfig>>
        /\ UNCHANGED <<loadVars, testVars, samplerVars, pageVars, hoverVars, familiarVars>>

\* A save in the settings page while the content script of a tab loads the
\* page and issues requests.
FreshNext ==
    \/ SaveClick
    \/ StorageWriteDone
    \/ ContentOnMessage
    \/ ContentPageLoad
    \/ ContentApiCall
    \/ TabUpdated

PopupNext ==
    \/ SaveClick
    \/ StorageWriteDone
    \/ ContentOnMessage
    \/ TestClick
    \/ TestSettles
    \/ TestTick

\* ---------------------------------------------------------- specifications
\* The variables of the parts a specification does not run.
SamplerOff == texts = <<>> /\ percentage = 0 /\ sampled = <<>> /\ samplerPc = "off"
PageOff ==
    /\ doc = Null /\ detached = {} /\ nextUid = 0 /\ nextWordId = 0
    /\ setterThrows = FALSE /\ storageGetOk = TRUE /\ hasExecuted = FALSE
    /\ mainPc = "off" /\ timers = {} /\ chineseTexts = <<>> /\ selectedTexts = <<>>
    /\ loopI = 0 /\ passPc = "off" /\ inFlight = {} /\ requests = <<>>
    /\ sinceSettle = 0 /\ scans = 0 /\ lastCall = NoCall
HoverOff ==
    /\ pointer = "away" /\ tooltips = <<>> /\ hoverTimers = {}
    /\ timeouts = [show |-> 0, hide |-> 0]
    /\ wordListeners = [w \in HoverWords |-> FALSE]
    /\ hoverTicks = 0 /\ lastShow = NoShow
FamiliarOff == marks = <<>> /\ notifications = <<>>
TestOff == testBtnDisabled = FALSE /\ testFlights = <<>>
LoadOff == readyState = "complete" /\ listening = {}
ConfigOff ==
    /\ installed = TRUE /\ form = FormOf(EmptyObject) /\ popupOpen = FALSE
    /\ edits = 0 /\ status = "none" /\ pendingWrites = <<>> /\ tabMessages = <<>>
    /\ settingsOpened = FALSE /\ translatorConfig = Null /\ lastReads = {}

\* The settings page, the background script and the content script's config.
ConfigSpecInit ==
    ConfigInit /\ SamplerOff /\ PageOff /\ HoverOff /\ FamiliarOff /\ TestOff
    /\ LoadOff
ConfigSpec == ConfigSpecInit /\ [][ConfigNext]_vars

\* randomSelectTexts on every candidate list up to MaxTexts.
SamplerSpecInit ==
    SamplerInit /\ ConfigInit /\ PageOff /\ HoverOff /\ FamiliarOff /\ TestOff
    /\ LoadOff
SamplerSpec == SamplerSpecInit /\ [][SamplerNext]_vars

\* The content script on one page load.
PageSpecInit ==
    PageInit /\ ConfigOff /\ SamplerOff /\ HoverOff /\ FamiliarOff /\ TestOff
    /\ LoadOff
PageSpec == PageSpecInit /\ [][PageNext]_vars

\* PageSpec with the scheduling of the browser: the fallback timer of
\* waitForPageLoad calls executeMain, the storage promise and every fetch
\* settle, a timer that is due fires, and time goes on.
PageFairSpec ==
    /\ PageSpec
    /\ WF_vars(ExecuteMain) /\ WF_vars(ConfigLoaded) /\ WF_vars(ExtractAndTranslate)
    /\ WF_vars(FetchSettles) /\ WF_vars(DelayOver) /\ WF_vars(ListenerTimer)
    /\ WF_vars(Tick)

\* The tooltip of a page whose words are annotated, while the pass may still
\* annotate another candidate under the same parent.
HoverSpecInit ==
    /\ HoverInit /\ ConfigOff /\ storage = InstalledStorage /\ SamplerOff /\ PageOff
    /\ FamiliarOff /\ TestOff
    /\ LoadOff
HoverSpec == HoverSpecInit /\ [][HoverNext]_vars

\* HoverSpec with the scheduling of the browser: a tooltip timer that is due
\* fires and time goes on; the pointer moves when the user moves it.
HoverFairSpec ==
    /\ HoverSpec
    /\ WF_vars(ShowTimerFires) /\ WF_vars(HideTimerFires) /\ WF_vars(HoverTick)

\* The tooltip and its button on a page whose pass is over.
FamiliarSpecInit == FamiliarInit /\ SamplerOff /\ TestOff
    /\ LoadOff
FamiliarSpec == FamiliarSpecInit /\ [][FamiliarNext]_vars

\* The settings page in use: input, save and connection test.
PopupSpecInit == PopupInit /\ SamplerOff /\ PageOff /\ HoverOff /\ FamiliarOff
    /\ LoadOff
PopupSpec == PopupSpecInit /\ [][PopupNext]_vars

\* The settings page and the content script of one tab.
FreshSpecInit == PopupInit /\ SamplerOff /\ PageOff /\ HoverOff /\ FamiliarOff
    /\ LoadOff
FreshSpec == FreshSpecInit /\ [][FreshNext]_vars

\* The content script from its injection to the start of the pass, with the
\* events of the document and the scheduling of the browser: a timer that is due fires, the storage
\* promise settles and time goes on; the events need not fire.
LoadSpecInit ==
    LoadInit /\ ConfigOff /\ SamplerOff /\ HoverOff /\ FamiliarOff /\ TestOff
LoadSpec ==
    /\ LoadSpecInit /\ [][LoadNext]_vars
    /\ WF_vars(TriggerTimerFires) /\ WF_vars(ConfigLoaded)
    /\ WF_vars(ExtractAndTranslate) /\ WF_vars(Tick)

\* ------------------------------------------------------------------- claims
\* C1. Sampler: for a candidate list of N entries and a percentage p, the
\* number of entries randomSelectTexts returns is max(1, floor(N * p)) and at
\* most N; the entries are distinct candidates of the list.
C1_SamplerCount ==
    samplerPc = "done" =>
        LET n == Len(texts)
            k == Len(sampled)
        IN  /\ 1 <= k /\ k <= n
            /\ (n * percentage < 100 => k = 1)
            /\ (n * percentage >= 100 =>
                    100 * k <= n * percentage /\ n * percentage < 100 * (k + 1))
            /\ \A a \in 1..k : \E b \in 1..n : sampled[a] = texts[b]
            /\ \A a, b \in 1..k : a # b => sampled[a] # sampled[b]

\* Seven candidates at 40 percent: floor(2.8) = 2 are returned.
C1_Witness ==
    samplerPc = "done" /\ Len(texts) = 7 /\ percentage = 40 /\ Len(sampled) = 2

\* C4. Config merge: for every stored config object and every reader that
\* merges (loadTranslatorConfig, getStoredConfig of the settings page, the
\* background's getConfig), each field the stored object has keeps its stored
\* value in the merged result and each defaultable field it lacks has its
\* default value there.
DefaultValues(field) ==
    {DefaultsOf(r)[field] : r \in {x \in Readers : field \in DOMAIN DefaultsOf(x)}}

C4_ConfigMerge ==
    \A r \in lastReads :
        r.getOk =>
            \A f \in DefaultableFields :
                /\ f \in DOMAIN r.merged
                /\ IF f \in DOMAIN r.stored
                   THEN r.merged[f] = r.stored[f]
                   ELSE r.merged[f] \in DefaultValues(f)

\* C5. Config invariant: after any sequence of installs, saves, resets and
\* reads, the config a component holds has all seven defaultable fields.
C5_ConfigPopulated ==
    /\ translatorConfig # Null => DefaultableFields \subseteq DOMAIN translatorConfig
    /\ \A r \in lastReads : DefaultableFields \subseteq DOMAIN r.merged

\* The characters of the model's pages that are CJK ideographs.
Ideographs == {"jia", "yi", "bing"}
PassesBothTests(n) ==
    /\ n.type = "text"
    /\ Len(trim(n.data)) >= 2
    /\ \E k \in DOMAIN n.data : n.data[k] \in Ideographs
JustScanned == passPc = "empty" \/ (passPc = "fetching" /\ loopI = 1)

\* C2. Scanner: the candidate list of extractChineseTexts is, in document
\* order, exactly the text nodes under the body whose trimmed text has at
\* least 2 characters and a CJK character; only candidates are selected, and
\* only their texts are sent.
C2_ScannerFilter ==
    /\ JustScanned =>
           LET passing == SelectSeq(NodesOf(doc), PassesBothTests)
           IN  /\ Len(chineseTexts) = Len(passing)
               /\ \A k \in DOMAIN passing :
                      /\ chineseTexts[k].node = passing[k].uid
                      /\ chineseTexts[k].text = trim(passing[k].data)
    /\ \A k \in DOMAIN selectedTexts : \E c \in DOMAIN chineseTexts :
           selectedTexts[k] = chineseTexts[c]
    /\ \A k \in DOMAIN requests :
           /\ Len(requests[k].sentence) >= 2
           /\ \E c \in DOMAIN requests[k].sentence :
                  requests[k].sentence[c] \in Ideographs
           /\ \E c \in DOMAIN chineseTexts : requests[k].sentence = chineseTexts[c].text

\* The scan of the filter page: two candidates out of seven text nodes.
C2_Witness ==
    /\ passPc = "fetching" /\ loopI = 1
    /\ Len(chineseTexts) = 2
    /\ Len(SelectSeq(NodesOf(doc), LAMBDA n : n.type = "text")) = 6

\* The last loop body got a result whose target word is not in the
\* candidate's text.
AbsentWordCall ==
    /\ lastCall.called
    /\ lastCall.response.kind = "result"
    /\ LET text == lastCall.textData.text
           word == lastCall.response.target_word
       IN  \A k \in 1..(Len(text) - Len(word) + 1) :
               SubSeq(text, k, k + Len(word) - 1) # word

\* C3. Annotator, absent word: when the target word does not occur in the
\* candidate's text, the DOM is as before the call, no exception left
\* annotateWordInText or the loop, and the loop waits for its 500 ms timer to
\* go on with the next candidate.
C3_AbsentWord ==
    AbsentWordCall =>
        /\ doc = lastCall.docBefore
        /\ detached = lastCall.detachedBefore
        /\ lastCall.outcome \notin Thrown
        /\ passPc = "delaying"
        /\ \E t \in timers : t.kind = "delay"

\* The backend named a word of the page that the candidate does not have.
C3_Witness ==
    /\ AbsentWordCall
    /\ lastCall.response.target_word = <<"jia">>
    /\ lastCall.textData.text = <<"yi", "yi">>
    /\ Len(selectedTexts) = 2 /\ loopI = 1

\* C6. End-to-end: when the scan finds exactly 10 candidates and the loaded
\* selectionPercentage is 10, exactly one /translate request is sent.
C6_TenCandidates ==
    (/\ scans > 0
     /\ Len(chineseTexts) = 10
     /\ translatorConfig # Null
     /\ "selectionPercentage" \in DOMAIN translatorConfig
     /\ translatorConfig.selectionPercentage = 10)
    => Len(requests) = 1

\* The pass over the page with ten candidates has ended.
C6_Witness ==
    /\ Len(chineseTexts) = 10
    /\ translatorConfig.selectionPercentage = 10
    /\ passPc = "done"
    /\ Len(requests) = 1

\* C7. One at a time: at most one /translate request is in flight, and every
\* request but the first was issued when the request before it had settled
\* and 500 ms (5 ticks) had passed since.
C7_OneAtATime ==
    /\ Cardinality(inFlight) <= 1
    /\ \A k \in DOMAIN requests :
           k > 1 => requests[k].previousSettled /\ requests[k].sinceSettle >= 5

\* The second request of a pass is in flight.
C7_Witness == Len(requests) = 2 /\ inFlight = {2}

\* The requests so far are those of the selected candidates in list order,
\* one each, and no exception has ended the loop.
RequestsFollowList ==
    /\ Len(requests) <= Len(selectedTexts)
    /\ \A k \in DOMAIN requests :
           requests[k].index = k /\ requests[k].sentence = selectedTexts[k].text
    /\ passPc # "crashed"
    /\ passPc = "done" => Len(requests) = Len(selectedTexts)

\* C8. Failure isolation: whatever the outcomes of the requests, exactly one
\* request is issued per selected candidate, in list order, and the pass
\* reaches its end.
C8_FailureIsolation ==
    /\ []RequestsFollowList
    /\ <>(passPc \in {"done", "empty"})

\* A pass of two candidates has ended; the first request got a network error
\* and the second one's annotation threw.
C8_Witness ==
    /\ passPc = "done"
    /\ Len(selectedTexts) = 2
    /\ Len(requests) = 2
    /\ requests[1].outcome = "networkError"
    /\ requests[2].outcome = "exception"

\* What the parent's children serialise to when only the candidate's own text
\* node is rewritten.
RECURSIVE OwnTextRewritten(_, _, _, _)
OwnTextRewritten(kids, own, word, by) ==
    IF kids = <<>> THEN <<>>
    ELSE (IF Head(kids).uid = own THEN ReplaceAll(Head(kids).data, word, by)
          ELSE SerializeNode(Head(kids)))
         \o OwnTextRewritten(Tail(kids), own, word, by)

\* C9. Annotator scope: after a successful annotation the parent element
\* holds what it held before, with every occurrence of the target word in the
\* candidate's own text node replaced by the hoverable span and the badge, and
\* everything else under the parent as it was.
C9_AnnotatorScope ==
    (lastCall.called /\ lastCall.outcome = "html") =>
        LET c == lastCall.textData
            before == Lookup(lastCall.docBefore, lastCall.detachedBefore, c.parent)
            after == Lookup(doc, detached, c.parent)
            word == lastCall.response.target_word
            by == hoverableWord(WordId(nextWordId - 1), word, lastCall.response.translation)
                  \o styledAnnotation(lastCall.response.translation)
        IN  (\E k \in DOMAIN before.kids : before.kids[k].uid = c.node) =>
                SerializeKids(after.kids)
                    = SerializeKids(ParseHTML(OwnTextRewritten(before.kids, c.node, word, by)))


\* C10. Tooltip show delay: when a tooltip appears, the pointer is on the
\* tooltip's word and has been on it for the 200 ms of the show delay; a show
\* whose hover ended earlier was cancelled.
C10_ShowDelay ==
    lastShow.shown =>
        /\ lastShow.pointer = lastShow.word
        /\ lastShow.hoverTicks >= 2

\* A pending hide timer that will remove the tooltip when it fires with the
\* pointer where it is now.
HidePending ==
    \E t \in hoverTimers :
        \/ t.kind = "hide"
        \/ t.kind = "hideUnlessHover" /\ pointer # "tooltip"

\* C11. Tooltip hide cancellation: while a tooltip is shown and the pointer is
\* on the tooltip's word or on the tooltip, no hide is pending: entering
\* cancelled it, so the tooltip stays for as long as the pointer stays.
C11_HideCancelled ==
    (tooltip # "none" /\ pointer \in {tooltip, "tooltip"}) => ~HidePending

\* C12. Hover shows the hovered word: when the pointer has been on a word
\* with hover listeners for the 200 ms of the show delay and no timer is due,
\* the tooltip of that word is displayed, whatever was displayed or pending
\* when the pointer entered.
C12_HoverShowsWord ==
    (/\ pointer \in HoverWords
     /\ wordListeners[pointer]
     /\ hoverTicks >= 2
     /\ \A t \in hoverTimers : t.left > 0)
        => tooltip = pointer

\* The children of the annotation's parent with the hoverable span and the
\* badge after it replaced by a text node of the span's word.
WithoutAnnotation(d, el) ==
    LET parent == parentNode(d, el.uid)
        j == CHOOSE k \in DOMAIN parent.kids : parent.kids[k].uid = el.uid
    IN  SubSeq(parent.kids, 1, j - 1)
        \o <<TextNode(AttrValue(el, <<"data-word">>))>>
        \o SubSeq(parent.kids, j + 2, Len(parent.kids))

\* C13. Mark familiar, success: the step in which a /familiar-words request
\* settles with 2xx and valid JSON hides the tooltip, puts a text node with
\* the word in the place of the hoverable span and its badge, and leaves no
\* annotation span of the marked word's id in the document.
C13_MarkFamiliarSuccess ==
    [][\A k \in DOMAIN marks :
          (marks[k].outcome = "pending" /\ marks'[k].outcome = "ok") =>
              /\ tooltip' = "none"
              /\ getElementById(doc', marks[k].elementId) = Null
              /\ LET el == getElementById(doc, marks[k].elementId)
                 IN  el # Null =>
                        SerializeKids(FindNode(doc', parentNode(doc, el.uid).uid).kids)
                            = SerializeKids(WithoutAnnotation(doc, el))]_vars

\* C14. Mark familiar, failure: the step in which a /familiar-words request
\* fails leaves the document as it was, shows an error notification and
\* leaves no tooltip and no tooltip timer.
C14_MarkFamiliarFailure ==
    [][\A k \in DOMAIN marks :
          (marks[k].outcome = "pending"
           /\ marks'[k].outcome \in {"networkError", "httpError", "badJson"}) =>
              /\ doc' = doc
              /\ notifications' = Append(notifications, "error")
              /\ tooltip' = "none"
              /\ hoverTimers' = {}]_vars

\* The step in which a chrome.storage.sync.set of saveSettings or
\* resetSettings settles, and the messages queued in a step.
WriteSettles == pendingWrites # <<>> /\ pendingWrites' = Tail(pendingWrites)
NewMessages == SubSeq(tabMessages', Len(tabMessages) + 1, Len(tabMessages'))

\* C15 as stated. Config broadcast: a save or reset whose storage write
\* succeeded sends 'configUpdated' to every open tab, in the step in which
\* the write has completed; a failed write sends nothing, and nothing else
\* sends the message.
C15_BroadcastEveryTab ==
    [][/\ (WriteSettles /\ status' = "success") =>
            /\ storage' = [present |-> TRUE, cfg |-> Head(pendingWrites).cfg]
            /\ \A k \in DOMAIN OpenTabs :
                  \E m \in DOMAIN NewMessages :
                     /\ NewMessages[m].action = "configUpdated"
                     /\ NewMessages[m].tab = OpenTabs[k].id
       /\ (WriteSettles /\ status' # "success") => tabMessages' = tabMessages
       /\ Len(tabMessages') > Len(tabMessages) => WriteSettles]_vars

\* C15, amended: the message goes to every open tab whose URL starts with
\* http, and to no other tab.
C15_BroadcastHttpTabs ==
    [][/\ (WriteSettles /\ status' = "success") =>
            /\ storage' = [present |-> TRUE, cfg |-> Head(pendingWrites).cfg]
            /\ Len(tabMessages') >= Len(tabMessages)
            /\ \A k \in DOMAIN OpenTabs :
                  Head(OpenTabs[k].url) \in {"http:", "https:"}
                  <=> \E m \in DOMAIN NewMessages :
                         /\ NewMessages[m].action = "configUpdated"
                         /\ NewMessages[m].tab = OpenTabs[k].id
       /\ (WriteSettles /\ status' # "success") => tabMessages' = tabMessages
       /\ Len(tabMessages') > Len(tabMessages) => WriteSettles]_vars

\* Both writes of a save have completed and the web page's tab has a message.
C15_Witness ==
    /\ status = "success"
    /\ pendingWrites = <<>>
    /\ \E k \in DOMAIN tabMessages :
          tabMessages[k].action = "configUpdated" /\ tabMessages[k].tab = 1

\* C16. Config freshness: a /translate or /familiar-words request that the
\* content script issues uses the serverUrl and the API settings that storage
\* (merged with the content script's defaults) holds in that step, unless
\* the content script holds the fallback of a rejected storage read.
C16_ConfigFreshness ==
    [][(/\ requests' # requests
        /\ translatorConfig' # loadTranslatorConfig(storage', FALSE)) =>
          requests'[1] = ApiRequest(loadTranslatorConfig(storage', TRUE),
                                    requests'[1].endpoint)]_vars

\* C17. Install lifecycle: while no settings-page write is pending, storage
\* changes only in onInstalled. When no config was stored and onInstalled's
\* write is carried out, the stored config is the shared defaults plus
\* lastUpdated and firstInstall; when a config was stored, the step leaves it
\* unchanged and opens no settings page, whatever the install reason.
C17_InstallLifecycle ==
    [][/\ (pendingWrites = <<>> /\ ~storage.present /\ storage'.present) =>
            /\ DOMAIN storage'.cfg
                   = DOMAIN DEFAULT_CONFIG \cup {"lastUpdated", "firstInstall"}
            /\ \A f \in DOMAIN DEFAULT_CONFIG : storage'.cfg[f] = DEFAULT_CONFIG[f]
            /\ storage'.cfg.lastUpdated = DateNow
            /\ storage'.cfg.firstInstall = TRUE
       /\ (pendingWrites = <<>> /\ storage.present) =>
            /\ storage' = storage
            /\ settingsOpened' => settingsOpened]_vars

\* onInstalled has stored the defaults and opened the settings page.
C17_Witness ==
    /\ installed
    /\ settingsOpened
    /\ storage.present
    /\ "firstInstall" \in DOMAIN storage.cfg

\* C18. Connection test: when no test request is in flight the test button is
\* enabled and the status is not 'testing' (every outcome ends in a success
\* or error status), and while a test request is in flight the button is
\* disabled.
C18_TestNeverFatal ==
    /\ testFlights = <<>> => (~testBtnDisabled /\ status # "testing")
    /\ testFlights # <<>> => testBtnDisabled

\* An http: or https: scheme followed by a host, blanks around it aside.
HttpUrl(s) == Len(trim(s)) >= 2 /\ trim(s)[1] \in {"http:", "https:"}

\* C19. URL validator: isValidUrl is true exactly for the strings that are an
\* http or https URL, and while the server URL field holds a string that is
\* none, no step (save click and test click included) adds a storage write
\* or a test request, and storage stays as it is.
C19_UrlValidator ==
    [][/\ \A s \in TestUrls : isValidUrl(s) <=> HttpUrl(s)
       /\ ~HttpUrl(form.serverUrl) =>
            /\ Len(pendingWrites') <= Len(pendingWrites)
            /\ Len(testFlights') <= Len(testFlights)
            /\ storage' = storage]_vars

\* A click with a server URL that is no http(s) URL was refused.
C19_Witness ==
    /\ ~HttpUrl(form.serverUrl)
    /\ form.serverUrl # <<>>
    /\ status = "error"
    /\ pendingWrites = <<>>
    /\ testFlights = <<>>

\* C20. Run-once guard: whenever and however often the page-load triggers
\* call executeMain, its body starts only while hasExecuted is false, the page
\* is scanned at most once, and the timer of the pass and the scan together
\* happen at most once.
C20_RunOnce ==
    [][/\ (mainPc' = "loading" /\ mainPc # "loading") => ~hasExecuted
       /\ scans' <= 1
       /\ scans' + Cardinality({t \in timers' : t.kind = "extract"}) <= 1]_vars

\* The page has been scanned and its pass is over.
C20_Witness ==
    /\ hasExecuted
    /\ scans = 1
    /\ passPc = "done"

\* C21. Guaranteed start: whatever readyState the document has when the
\* content script is injected, and whether or not DOMContentLoaded and load
\* fire afterwards, executeMain runs and the page is scanned.
C21_GuaranteedStart == <>(hasExecuted /\ scans >= 1)

\* The page was scanned although neither DOMContentLoaded nor load has fired.
C21_Witness ==
    /\ readyState = "loading"
    /\ hasExecuted
    /\ scans = 1

\* What saveSettings must refuse: no or no http(s) server URL, an API URL
\* that is no http(s) URL, a template without one of its two placeholders.
RefusedForm(f) ==
    \/ trim(f.serverUrl) = <<>>
    \/ ~HttpUrl(f.serverUrl)
    \/ trim(f.apiUrl) # <<>> /\ ~HttpUrl(f.apiUrl)
    \/ /\ trim(f.userPromptTemplate) # <<>>
       /\ \/ "{target_word}" \notin Range(f.userPromptTemplate)
          \/ "{context_sentence}" \notin Range(f.userPromptTemplate)

\* C22. Save validation: a save click on a form with an empty or invalid
\* server URL, an invalid API URL or a template lacking a placeholder leaves
\* the stored config unchanged, starts no write, sends no configUpdated
\* message and shows an error status.
C22_SaveValidation ==
    [][(SaveClick /\ RefusedForm(form)) =>
          /\ storage' = storage
          /\ pendingWrites' = pendingWrites
          /\ tabMessages' = tabMessages
          /\ status' = "error"]_vars

\* A save with an API URL that is no http(s) URL was refused.
C22_Witness ==
    /\ HttpUrl(form.serverUrl)
    /\ trim(form.apiUrl) # <<>> /\ ~HttpUrl(form.apiUrl)
    /\ status = "error"
    /\ storage = InstalledStorage

\* C23. Tooltip goes away: when a tooltip is shown and the pointer is on
\* neither an annotated word nor the tooltip, the tooltip is removed unless
\* the pointer comes back, also after the word's element was replaced.
C23_TooltipGoesAway ==
    (tooltip # "none" /\ pointer = "away") ~> (tooltip = "none" \/ pointer # "away")

\* The content script's listener takes the first message in flight.
MessageHandled == tabMessages # <<>> /\ tabMessages' = Tail(tabMessages)

\* C24. Background config push: the message the background script sends when
\* a tab has finished loading carries the stored config, and once the content
\* script has handled that message its cached config has the values of the
\* message's config.
C24_BackgroundPush ==
    [][/\ \A k \in DOMAIN tabMessages' :
             (k > Len(tabMessages) /\ tabMessages'[k].action = "configUpdate")
                 => tabMessages'[k].config = storage.cfg
       /\ (MessageHandled /\ Head(tabMessages).action = "configUpdate") =>
             /\ translatorConfig' # Null
             /\ \A f \in FormFields \cap DOMAIN Head(tabMessages).config :
                    translatorConfig'[f] = Head(tabMessages).config[f]]_vars

\* C25. Candidates stay live: whenever the pass annotates a candidate, the
\* candidate's parent element is part of the document at that moment, and
\* the annotation is in the document afterwards.
C25_CandidatesStayLive ==
    (lastCall.called /\ lastCall.outcome \in {"html", "text"}) =>
        /\ Holds(lastCall.docBefore, lastCall.textData.parent)
        /\ Holds(doc, lastCall.textData.parent)

\* C26. Unique annotation ids: no two hoverable word spans of the document
\* carry the same id.
C26_UniqueIds ==
    LET spans == HoverableWords(doc)
    IN  \A j, k \in DOMAIN spans :
            (j < k /\ HasAttr(spans[j], <<"id">>) /\ HasAttr(spans[k], <<"id">>))
                => AttrValue(spans[j], <<"id">>) # AttrValue(spans[k], <<"id">>)

\* C27. Hover listeners reach every annotation: when the pass has finished
\* and no listener timer is pending, every hoverable word span of the document
\* has the hover listeners, the spans with the hoverEventsSet mark included.
C27_ListenersEverywhere ==
    (passPc = "done" /\ \A t \in timers : t.kind # "listener") =>
        \A k \in DOMAIN HoverableWords(doc) : HoverableWords(doc)[k].listeners >= 1

\* C28. Single tooltip: in every reachable state, after any sequence of hover,
\* leave and timer events on the annotated words, the document holds at most
\* one tooltip element.
C28_SingleTooltip == Len(tooltips) <= 1

\* The tooltip of one word is displayed while the pointer is on the other
\* word: hover events on two words led here.
C28_Witness ==
    /\ Len(tooltips) = 1
    /\ pointer \in HoverWords /\ tooltip \in HoverWords /\ pointer # tooltip

\* C29. One action per click: a click on Save with valid input or on Reset
\* starts exactly one storage write, a write that succeeds sends one round of
\* configUpdated messages and is the click's only one, and the config a reset
\* stored equals the values shown in the form.
C29_OneActionPerClick ==
    [][/\ ((SaveClick /\ SaveValid(form)) \/ ResetClick) => Len(pendingWrites') = 1
       /\ (StorageWriteDone /\ storage' # storage) =>
              /\ pendingWrites' = <<>>
              /\ tabMessages' = tabMessages \o notifyConfigUpdate(OpenTabs)
              /\ Head(pendingWrites).kind = "reset" => FormOf(storage'.cfg) = form']_vars

\* C30. Save keeps the selection percentage: a storage write of saveSettings
\* leaves the selection percentage that a page loaded afterwards uses as it
\* was before the write.
C30_SaveKeepsPercentage ==
    [][(StorageWriteDone /\ Head(pendingWrites).kind = "save") =>
          SelectionPercentage(loadTranslatorConfig(storage', TRUE))
              = SelectionPercentage(loadTranslatorConfig(storage, TRUE))]_vars

====
